---- MODULE Spec2Model ----
(***************************************************************************)
(* BetTrack sports-data MCP server: the odds client (key rotation,         *)
(* bookmaker filter and cap), the ESPN client, their shared _make_request  *)
(* error policy, and the tool layer of sports_mcp_server.py that composes  *)
(* them.                                                                   *)
(*                                                                         *)
(* Conventions.                                                            *)
(*  - A Python string whose letter case matters is a sequence of           *)
(*    one-character strings; str.lower() is Lower.                         *)
(*  - An optional value (None, or a dict key that may be missing) is a     *)
(*    sequence of length 0 (None / missing) or 1 (present).                *)
(*  - A tool invocation runs from one await of an HTTP response to the     *)
(*    next: one action starts the tool, one action per vendor resumes it   *)
(*    when the response (or the transport exception) arrives.              *)
(***************************************************************************)
EXTENDS Integers, Sequences, FiniteSets, TLC

VARIABLES
    odds_configured,        \* sports_mcp_server.odds_handler is not None
    api_keys,               \* OddsAPIHandler.api_keys
    current_key_index,      \* OddsAPIHandler.current_key_index
    session,                \* OddsAPIHandler.session: "none", "open", "closed"
    espn_session,           \* ESPNAPIHandler.session: "none", "open", "closed"
    bookmakers_filter_arg,  \* the bookmakers_filter argument given to __init__
    bookmakers_filter,      \* OddsAPIHandler.bookmakers_filter
    bookmakers_limit,       \* OddsAPIHandler.bookmakers_limit
    keyLog,                 \* every odds _make_request call so far, in call order: its
                            \* apiKey and whether its GET was sent
    inv,                    \* the tool invocation in progress, or the last one finished
    lastCall,               \* the latest _make_request call of either handler
    fcase                   \* get_odds applied to one vendor response (SpecFilter)

vars == <<odds_configured, api_keys, current_key_index, session, espn_session,
          bookmakers_filter_arg, bookmakers_filter, bookmakers_limit, keyLog,
          inv, lastCall, fcase>>

---------------------------------------------------------------------------
(* Bounds of the model. *)

\* most API keys a handler is constructed with
MaxKeys == 3
\* a tool invocation starts only while fewer than MaxCalls odds requests were made
MaxCalls == 3
\* most bookmakers the vendor lists for one game (SpecFilter)
MaxBooks == 2
\* most games in one vendor response (SpecFilter)
MaxFilterGames == 1
\* the longest team name of the tables, in characters
MaxNameLen == 22
\* largest |days_from| given to get_scores (SpecScores)
MaxDays == 40
\* most events in one ESPN scoreboard answer, and the largest limit (SpecScoreboard)
MaxEvents == 27

---------------------------------------------------------------------------
(* Values. *)

None == <<>>
Some(x) == <<x>>
IsNone(o) == o = <<>>

UpperLetters ==
    <<"A", "B", "C", "D", "E", "F", "G", "H", "I", "J", "K", "L", "M",
      "N", "O", "P", "Q", "R", "S", "T", "U", "V", "W", "X", "Y", "Z">>
LowerLetters ==
    <<"a", "b", "c", "d", "e", "f", "g", "h", "i", "j", "k", "l", "m",
      "n", "o", "p", "q", "r", "s", "t", "u", "v", "w", "x", "y", "z">>

\* the lower-case and upper-case letter of every letter
LowerOf == [c \in {UpperLetters[i] : i \in 1..Len(UpperLetters)} |->
               LowerLetters[CHOOSE i \in 1..Len(UpperLetters) : UpperLetters[i] = c]]
UpperOf == [c \in {LowerLetters[i] : i \in 1..Len(LowerLetters)} |->
               UpperLetters[CHOOSE i \in 1..Len(LowerLetters) : LowerLetters[i] = c]]

\* str.lower() on one character
LowerChar(c) == IF c \in DOMAIN LowerOf THEN LowerOf[c] ELSE c

\* str.upper() on one character
UpperChar(c) == IF c \in DOMAIN UpperOf THEN UpperOf[c] ELSE c

\* str.lower()
Lower(s) == [i \in 1..Len(s) |-> LowerChar(s[i])]

\* str.upper()
Upper(s) == [i \in 1..Len(s) |-> UpperChar(s[i])]

\* x in list
InList(x, list) == \E i \in 1..Len(list) : list[i] = x

\* Python's seq[:n], for any integer n
Take(s, n) ==
    IF n >= 0
    THEN SubSeq(s, 1, IF n < Len(s) THEN n ELSE Len(s))
    ELSE SubSeq(s, 1, IF Len(s) + n > 0 THEN Len(s) + n ELSE 0)

\* [f(x) for x in s if p(x)]: the elements of s satisfying Keep, in order
RECURSIVE SelectBooks(_, _)
SelectBooks(books, allow) ==
    IF books = <<>> THEN <<>>
    ELSE LET bm == Head(books)
             \* bm.get("key", "").lower()
             k  == Lower(IF IsNone(bm.key) THEN <<>> ELSE bm.key[1])
         IN  (IF InList(k, allow) THEN <<bm>> ELSE <<>>)
             \o SelectBooks(Tail(books), allow)

\* all sequences over S of length at most n
SeqsUpTo(S, n) == UNION {[1..k -> S] : k \in 0..n}

---------------------------------------------------------------------------
(* The vendors' answers. *)

\* HTTP statuses the vendor answers with: 200, another 2xx, a 4xx
Statuses == {200, 204, 401}

\* text of the error field for a non-200 status: f"API returned status {status}"
StatusError(status) ==
    CASE status = 204 -> "API returned status 204"
      [] status = 401 -> "API returned status 401"
      [] OTHER -> "API returned status"

\* str(e) of the exception raised by session.get (transport) and by response.json()
TransportError == "Cannot connect to host"
DecodeError == "Attempt to decode JSON with unexpected mimetype"

\* What the network does with one GET: an exception while sending, or a response
\* with a status whose body decodes to `data` or does not decode.
Responses(payloads) ==
    {[kind |-> "exception", status |-> 0, decodes |-> FALSE, data |-> None]}
    \cup {[kind |-> "http", status |-> s, decodes |-> FALSE, data |-> None] : s \in Statuses}
    \cup {[kind |-> "http", status |-> 200, decodes |-> TRUE, data |-> Some(p)] : p \in payloads}

\* a _make_request that takes every 2xx status for a success
MakeRequestReturnAny2xx(resp) ==
    IF resp.kind = "exception"
    THEN [success |-> "false", error |-> Some(TransportError), details |-> FALSE, data |-> None]
    ELSE IF resp.status >= 200 /\ resp.status < 300
         THEN [success |-> "true", error |-> None, details |-> FALSE, data |-> resp.data]
         ELSE [success |-> "false", error |-> Some(StatusError(resp.status)),
               details |-> TRUE, data |-> None]

\* _make_request from the GET on: the dict it returns for one vendor answer.
\* success is "true"/"false"; error is None when the key is missing.
MakeRequestReturn(resp) ==
    IF resp.kind = "exception"
    THEN [success |-> "false", error |-> Some(TransportError), details |-> FALSE, data |-> None]
    ELSE IF resp.status = 200
         THEN IF resp.decodes
              THEN [success |-> "true", error |-> None, details |-> FALSE, data |-> resp.data]
              ELSE [success |-> "false", error |-> Some(DecodeError), details |-> FALSE, data |-> None]
         ELSE [success |-> "false", error |-> Some(StatusError(resp.status)),
               details |-> TRUE, data |-> None]

---------------------------------------------------------------------------
(* OddsAPIHandler: construction, bookmaker filter and cap. *)

\* __init__: [bm.lower() for bm in bookmakers_filter] if bookmakers_filter else None
InitFilter(arg) ==
    IF IsNone(arg) \/ arg[1] = <<>>
    THEN None
    ELSE Some([i \in 1..Len(arg[1]) |-> Lower(arg[1][i])])

\* a filter step that keeps every bookmaker (the allow-list is ignored)
FilterGameBooksNoFilter(filter, limit, books) ==
    IF limit # 0 THEN Take(books, limit) ELSE books

\* the cap applied before the filter instead of after it
FilterGameBooksCapFirst(filter, limit, books) ==
    LET capped == IF limit # 0 THEN Take(books, limit) ELSE books
    IN  IF ~IsNone(filter) /\ filter[1] # <<>>
        THEN SelectBooks(capped, filter[1])
        ELSE capped

\* a filter step that applies the allow-list even when it is empty or absent
FilterGameBooksAlwaysFilter(filter, limit, books) ==
    LET filtered == SelectBooks(books, IF IsNone(filter) THEN <<>> ELSE filter[1])
    IN  IF limit # 0 THEN Take(filtered, limit) ELSE filtered

\* the bookmakers of one game after the filter and the cap
FilterGameBooks(filter, limit, books) ==
    LET filtered == IF ~IsNone(filter) /\ filter[1] # <<>>
                    THEN SelectBooks(books, filter[1])
                    ELSE books
    IN  IF limit # 0 THEN Take(filtered, limit) ELSE filtered

\* one game of the loop of _filter_bookmakers
FilterGame(filter, limit, game) ==
    IF IsNone(game.bookmakers)
    THEN game
    ELSE [game EXCEPT !.bookmakers = Some(FilterGameBooks(filter, limit, game.bookmakers[1]))]

\* a _filter_bookmakers that also drops the games left without a bookmaker
FilterBookmakersDropEmpty(filter, limit, result) ==
    IF IsNone(result.data) THEN result
    ELSE IF result.data[1].shape # "list" THEN result
    ELSE [result EXCEPT !.data =
            Some([shape |-> "list",
                  items |-> SelectSeq([i \in 1..Len(result.data[1].items) |->
                                          FilterGame(filter, limit, result.data[1].items[i])],
                                      LAMBDA g : IsNone(g.bookmakers)
                                                    \/ g.bookmakers[1] # <<>>)])]

\* _filter_bookmakers(data): data is a _make_request result; its data field holds
\* [shape |-> "list", items |-> games] for a JSON array and "dict" for a JSON object
FilterBookmakers(filter, limit, result) ==
    IF IsNone(result.data) THEN result
    ELSE IF result.data[1].shape # "list" THEN result
    ELSE [result EXCEPT !.data =
            Some([shape |-> "list",
                  items |-> [i \in 1..Len(result.data[1].items) |->
                               FilterGame(filter, limit, result.data[1].items[i])]])]

\* get_odds after its _make_request returned `result`
GetOddsReturn(filter, limit, result) ==
    IF result.success = "true" THEN FilterBookmakers(filter, limit, result) ELSE result

---------------------------------------------------------------------------
(* SpecFilter: get_odds as a function of the handler's configuration and   *)
(* of the vendor's answer, on every answer within the bounds.              *)

\* bookmaker keys as the vendor spells them, and allow-list entries as configured
KeyDK == <<"D", "K">>
KeyFd == <<"f", "d">>
KeyB == <<"b">>
ArgDk == <<"d", "K">>
ArgFD == <<"F", "D">>

\* a vendor bookmaker entry; the last one has no key field
BookPool ==
    {[key |-> Some(KeyDK), title |-> "DraftKings"],
     [key |-> Some(KeyFd), title |-> "FanDuel"],
     [key |-> Some(KeyB), title |-> "Bovada"],
     [key |-> None, title |-> "Unkeyed"]}

TeamLA == <<"L", "A">>
TeamBo == <<"B", "o">>

\* a game of an odds response with the given optional bookmakers list
FilterGames ==
    {[id |-> "e1", home_team |-> TeamLA, away_team |-> TeamBo, bookmakers |-> b] :
        b \in {None} \cup {Some(l) : l \in SeqsUpTo(BookPool, MaxBooks)}}

\* JSON arrays of games the vendor may answer get_odds with
FilterPayloads ==
    {[shape |-> "list", items |-> g] : g \in SeqsUpTo(FilterGames, MaxFilterGames)}

\* the bookmakers_filter arguments a handler is constructed with
FilterArgs == {None, Some(<<>>), Some(<<ArgDk>>), Some(<<ArgFD, ArgDk>>), Some(<<KeyB>>)}

\* the bookmakers_limit arguments a handler is constructed with (5 is the default)
LimitArgs == {-1, 0, 1, 2, 5}

InitFilterSpec ==
    /\ odds_configured = TRUE
    /\ api_keys = <<"k1">>
    /\ current_key_index = 0
    /\ session = "none"
    /\ espn_session = "none"
    /\ bookmakers_filter_arg \in FilterArgs
    /\ bookmakers_filter = InitFilter(bookmakers_filter_arg)
    /\ bookmakers_limit \in LimitArgs
    /\ keyLog = <<>>
    /\ inv = [tool |-> "none", pc |-> "done"]
    /\ lastCall = [vendor |-> "none", state |-> "none"]
    /\ fcase = [applied |-> FALSE]

\* get_odds on one vendor answer: what _make_request returns, then the filter
FilterGetOdds(resp) ==
    /\ fcase' = [applied |-> TRUE,
                 resp |-> resp,
                 result |-> GetOddsReturn(bookmakers_filter, bookmakers_limit,
                                          MakeRequestReturn(resp))]
    /\ UNCHANGED <<odds_configured, api_keys, current_key_index, session, espn_session,
                   bookmakers_filter_arg, bookmakers_filter, bookmakers_limit, keyLog, inv,
                   lastCall>>

NextFilter == \E resp \in Responses(FilterPayloads) : FilterGetOdds(resp)

SpecFilter == InitFilterSpec /\ [][NextFilter]_vars

\* a successful get_odds on a JSON array of games
FilterSucceeded ==
    /\ fcase.applied
    /\ fcase.result.success = "true"
    /\ fcase.result.data[1].shape = "list"

\* the games the vendor sent and the games get_odds returned
VendorGames == fcase.resp.data[1].items
ReturnedGames == fcase.result.data[1].items

\* a is b with some entries removed
RECURSIVE IsSubSequence(_, _)
IsSubSequence(a, b) ==
    IF a = <<>> THEN TRUE
    ELSE IF b = <<>> THEN FALSE
    ELSE IF Head(a) = Head(b) THEN IsSubSequence(Tail(a), Tail(b))
    ELSE IsSubSequence(a, Tail(b))

\* bm's key equals an entry of the configured allow-list, letter case ignored
AllowListed(bm) ==
    /\ ~IsNone(bookmakers_filter_arg)
    /\ \E i \in 1..Len(bookmakers_filter_arg[1]) :
          Lower(bookmakers_filter_arg[1][i]) = Lower(IF IsNone(bm.key) THEN <<>> ELSE bm.key[1])

FilterConfigured == ~IsNone(bookmakers_filter_arg) /\ bookmakers_filter_arg[1] # <<>>

\* C3: with a non-empty allow-list, every game's bookmakers list returned by a
\* successful get_odds is a sub-sequence of the vendor's list for that game and
\* holds only entries whose key is in the allow-list, letter case ignored.
C3_FilterSubsequenceAllowListed ==
    (FilterSucceeded /\ FilterConfigured) =>
        /\ Len(ReturnedGames) = Len(VendorGames)
        /\ \A i \in 1..Len(ReturnedGames) :
              ~IsNone(ReturnedGames[i].bookmakers) =>
                 /\ ~IsNone(VendorGames[i].bookmakers)
                 /\ IsSubSequence(ReturnedGames[i].bookmakers[1], VendorGames[i].bookmakers[1])
                 /\ \A j \in 1..Len(ReturnedGames[i].bookmakers[1]) :
                       AllowListed(ReturnedGames[i].bookmakers[1][j])

\* C3 witness: the filter kept an entry spelled in another letter case than the
\* allow-list and removed an entry that is not allow-listed.
C3_Witness ==
    /\ FilterSucceeded /\ FilterConfigured
    /\ \E i \in 1..Len(ReturnedGames) :
          /\ ~IsNone(VendorGames[i].bookmakers)
          /\ \E j \in 1..Len(VendorGames[i].bookmakers[1]) :
                ~AllowListed(VendorGames[i].bookmakers[1][j])
          /\ \E j \in 1..Len(ReturnedGames[i].bookmakers[1]) :
                /\ ReturnedGames[i].bookmakers[1][j].key = Some(KeyDK)
                /\ ~InList(KeyDK, bookmakers_filter_arg[1])

\* C4 (as claimed): for every configured bookmakers_limit c >= 0, 0 included,
\* every game's bookmakers list returned by a successful get_odds has length <= c.
C4_AlwaysCapped ==
    (FilterSucceeded /\ bookmakers_limit >= 0) =>
        \A i \in 1..Len(ReturnedGames) :
           ~IsNone(ReturnedGames[i].bookmakers) =>
              Len(ReturnedGames[i].bookmakers[1]) <= bookmakers_limit

\* the allow-listed bookmakers of a vendor list, in vendor order
AllowListedOf(books) == SelectSeq(books, AllowListed)

Min(a, b) == IF a < b THEN a ELSE b

\* C5: with an allow-list and a cap c > 0 the returned bookmakers list of a game
\* is exactly the first min(c, m) of the m allow-listed bookmakers in vendor order.
C5_CapAfterFilter ==
    (FilterSucceeded /\ FilterConfigured /\ bookmakers_limit > 0) =>
        \A i \in 1..Len(ReturnedGames) :
           ~IsNone(VendorGames[i].bookmakers) =>
              LET allowed == AllowListedOf(VendorGames[i].bookmakers[1])
              IN  /\ ~IsNone(ReturnedGames[i].bookmakers)
                  /\ ReturnedGames[i].bookmakers[1]
                       = SubSeq(allowed, 1, Min(bookmakers_limit, Len(allowed)))

\* C5 witness: a bookmaker that is not allow-listed comes first in the vendor's
\* list, and the cap then cut the allow-listed ones down to exactly c entries.
C5_Witness ==
    /\ FilterSucceeded /\ FilterConfigured /\ bookmakers_limit > 0
    /\ \E i \in 1..Len(ReturnedGames) :
          /\ ~IsNone(VendorGames[i].bookmakers)
          /\ Len(VendorGames[i].bookmakers[1]) > bookmakers_limit
          /\ ~AllowListed(VendorGames[i].bookmakers[1][1])
          /\ Len(ReturnedGames[i].bookmakers[1]) = bookmakers_limit

---------------------------------------------------------------------------
(* Spec: the tool layer of sports_mcp_server.py over the two handlers.     *)

\* the sport keys tools are called with; NoSport is None or the empty string
NoSport == ""
SportNBA == "basketball_nba"
SportMLB == "baseball_mlb"

\* search_odds: the sports checked when no sport is given
PopularSports == <<"americanfootball_nfl", "basketball_nba", "baseball_mlb", "icehockey_nhl">>

\* search_odds: sports_to_check
SportsToCheck(sport) == IF sport # NoSport THEN <<sport>> ELSE PopularSports

\* get_matchup_cards: sport_key in sport_map
InSportMap(sport) == sport \in {"basketball_nba", "americanfootball_nfl", "icehockey_nhl"}

\* team queries; NoQuery is None or the empty string
NoQuery == <<>>
QueryLa == <<"L", "a">>
TeamNy == <<"N", "y">>

\* sub in s, for Python strings
Contains(sub, s) ==
    \E i \in 0..(Len(s) - Len(sub)) : SubSeq(s, i + 1, i + Len(sub)) = sub

BookDK == [key |-> Some(KeyDK), title |-> "DraftKings"]
BookFd == [key |-> Some(KeyFd), title |-> "FanDuel"]
GameLA == [id |-> "e1", home_team |-> TeamLA, away_team |-> TeamBo,
           bookmakers |-> Some(<<BookDK, BookFd>>)]
GameNy == [id |-> "e2", home_team |-> TeamNy, away_team |-> TeamBo, bookmakers |-> None]

\* JSON arrays the odds vendor answers /odds, /scores and /sports with
OddsPayloads ==
    {[shape |-> "list", items |-> <<>>],
     [shape |-> "list", items |-> <<GameLA>>],
     [shape |-> "list", items |-> <<GameNy, GameLA>>]}

\* the JSON object the odds vendor answers /events/{id}/odds with
EventPayloads == {[shape |-> "dict", items |-> <<GameLA>>]}

\* JSON objects the ESPN vendor answers with
EventLA == [teams |-> <<TeamLA, TeamBo>>, broadcasts |-> <<"ESPN">>]
EspnPayloads ==
    {[shape |-> "dict", items |-> <<>>],
     [shape |-> "dict", items |-> <<EventLA>>]}

\* str(e) of the exception aiohttp.ClientSession() raises
SessionError == "ClientSession could not be created"

\* ESPNAPIHandler._make_request from the GET on
EspnMakeRequestReturn(resp) ==
    IF resp.kind = "exception"
    THEN [success |-> "false", error |-> Some(TransportError), details |-> FALSE, data |-> None]
    ELSE IF resp.status = 200
         THEN IF resp.decodes
              THEN [success |-> "true", error |-> None, details |-> FALSE, data |-> resp.data]
              ELSE [success |-> "false", error |-> Some(DecodeError), details |-> FALSE, data |-> None]
         ELSE [success |-> "false", error |-> Some(StatusError(resp.status)),
               details |-> TRUE, data |-> None]

\* no invocation yet
IdleInv ==
    [tool |-> "none", sport |-> NoSport, query |-> NoQuery, flag |-> FALSE,
     pc |-> "done", method |-> "", sportIdx |-> 0, games |-> <<>>,
     odds_data |-> None, error |-> None,
     gets |-> 0, reqs |-> <<>>, errs |-> {}, result |-> None, raised |-> FALSE]

\* no _make_request call yet
IdleCall ==
    [vendor |-> "none", state |-> "none", gets |-> 0, resp |-> None, ret |-> None]

---------------------------------------------------------------------------
(* The handlers' requests.  A world w holds the values the code of one     *)
(* step reads and writes: idx, sess, esess, log, inv, lc mirror the        *)
(* variables, exc is the exception in flight (None when there is none).    *)

World ==
    [idx |-> current_key_index, sess |-> session, esess |-> espn_session,
     log |-> keyLog, inv |-> inv, lc |-> lastCall, exc |-> None]

\* a rotation that hands out the current key without advancing the index
GetNextApiKeyStuck(w) == [key |-> api_keys[w.idx + 1], idx |-> w.idx]

\* a rotation that advances the index by two
GetNextApiKeySkip(w) ==
    [key |-> api_keys[w.idx + 1], idx |-> (w.idx + 2) % Len(api_keys)]

\* a rotation that always hands out the first key
GetNextApiKeyFirst(w) == [key |-> api_keys[1], idx |-> (w.idx + 1) % Len(api_keys)]

\* OddsAPIHandler._get_next_api_key: the key handed out and the advanced index
GetNextApiKey(w) ==
    [key |-> api_keys[w.idx + 1], idx |-> (w.idx + 1) % Len(api_keys)]

\* _get_session: a session is created only when none is held or the held one is closed
NeedsSession(sess) == sess \in {"none", "closed"}

\* OddsAPIHandler._make_request up to the GET: the key is taken, the session is
\* obtained (sessOk: aiohttp.ClientSession() does not raise), the GET is sent.
OddsIssue(w, sessOk, method, sport) ==
    LET nk == GetNextApiKey(w)
        w1 == [w EXCEPT !.idx = nk.idx,
                        !.log = Append(@, [key |-> nk.key,
                                           sent |-> ~(NeedsSession(w.sess) /\ ~sessOk)])]
    IN  IF NeedsSession(w1.sess) /\ ~sessOk
        THEN [w1 EXCEPT !.exc = Some(SessionError),
                        !.lc = [vendor |-> "odds", state |-> "raised", gets |-> 0,
                                resp |-> None, ret |-> None]]
        ELSE [w1 EXCEPT !.sess = "open",
                        !.inv.pc = "odds",
                        !.inv.method = method,
                        !.inv.gets = @ + 1,
                        !.inv.reqs = Append(@, [vendor |-> "odds", method |-> method,
                                                sport |-> sport, failed |-> FALSE]),
                        !.lc = [vendor |-> "odds", state |-> "pending", gets |-> 1,
                                resp |-> None, ret |-> None]]

\* ESPNAPIHandler.get_scoreboard .. get_game_summary: one _make_request, up to the GET
EspnIssue(w, sessOk, method, sport) ==
    IF NeedsSession(w.esess) /\ ~sessOk
    THEN [w EXCEPT !.exc = Some(SessionError),
                   !.lc = [vendor |-> "espn", state |-> "raised", gets |-> 0,
                           resp |-> None, ret |-> None]]
    ELSE [w EXCEPT !.esess = "open",
                   !.inv.pc = "espn",
                   !.inv.method = method,
                   !.inv.gets = @ + 1,
                   !.inv.reqs = Append(@, [vendor |-> "espn", method |-> method,
                                           sport |-> sport, failed |-> FALSE]),
                   !.lc = [vendor |-> "espn", state |-> "pending", gets |-> 1,
                           resp |-> None, ret |-> None]]

\* the rest of _make_request: the answer `resp` arrived and `ret` is returned
Returned(w, resp, ret) ==
    [w EXCEPT !.lc.state = "returned",
              !.lc.resp = Some(resp),
              !.lc.ret = Some(ret),
              !.inv.reqs[Len(w.inv.reqs)].failed = (ret.success = "false"),
              !.inv.errs = IF ret.success = "false" THEN @ \cup {ret.error[1]} ELSE @]

\* the tool returns `result`
Finish(w, result) == [w EXCEPT !.inv.pc = "done", !.inv.result = Some(result)]

\* the exception in flight leaves the tool
Raise(w) == [w EXCEPT !.inv.pc = "done", !.inv.raised = TRUE, !.exc = None]

\* a tool without try/except: an exception in flight leaves it
Propagate(w) == IF IsNone(w.exc) THEN w ELSE Raise(w)

---------------------------------------------------------------------------
(* OddsAPIHandler methods, from the return of their _make_request on. *)

\* get_event_odds after its _make_request returned `result`.  The branch that wraps a
\* single event needs a result without a data key; a successful _make_request result
\* always has one, so the else branch runs.
GetEventOddsReturn(filter, limit, result) ==
    IF result.success = "true" THEN FilterBookmakers(filter, limit, result) ELSE result

\* what a one-request method returns for the _make_request result r
MethodReturn(method, r) ==
    CASE method = "get_odds" -> GetOddsReturn(bookmakers_filter, bookmakers_limit, r)
      [] method = "get_event_odds" -> GetEventOddsReturn(bookmakers_filter, bookmakers_limit, r)
      [] OTHER -> r

\* a match that compares the query with the team names as they are spelled
QueryMatchesCaseSensitive(query, game) ==
    \/ Contains(query, game.home_team)
    \/ Contains(query, game.away_team)

\* search_odds: query_lower in home_team or query_lower in away_team
QueryMatches(query, game) ==
    \/ Contains(Lower(query), Lower(game.home_team))
    \/ Contains(Lower(query), Lower(game.away_team))

\* search_odds: {"sport": sport_key, **game} for the games of `items` that match
RECURSIVE TaggedMatches(_, _, _)
TaggedMatches(query, sportKey, items) ==
    IF items = <<>> THEN <<>>
    ELSE (IF QueryMatches(query, Head(items))
          THEN <<[sport |-> sportKey, game |-> Head(items)]>>
          ELSE <<>>)
         \o TaggedMatches(query, sportKey, Tail(items))

\* search_odds: the matches one get_odds result adds to matching_games
SearchMatches(query, sportKey, oddsResult) ==
    IF /\ oddsResult.success = "true"
       /\ ~IsNone(oddsResult.data)
       /\ oddsResult.data[1].items # <<>>
    THEN TaggedMatches(query, sportKey, oddsResult.data[1].items)
    ELSE <<>>

\* search_odds: the dict it returns
SearchReturn(query, matching) ==
    [kind |-> "search", success |-> "true", error |-> None, query |-> query,
     matching_games |-> matching, count |-> Len(matching)]

\* search_odds up to its first get_odds
SearchStart(w, sessOk) ==
    OddsIssue([w EXCEPT !.inv.sportIdx = 1, !.inv.games = <<>>],
              sessOk, "search_odds", SportsToCheck(w.inv.sport)[1])

---------------------------------------------------------------------------
(* The tools of sports_mcp_server.py, from entry to the first await and    *)
(* from each await to the next.                                            *)

NotConfigured ==
    [kind |-> "not_configured", success |-> "absent",
     error |-> Some("Odds API not configured")]

\* get_visual_scoreboard without an odds handler
VisualNotConfigured ==
    [kind |-> "not_configured", success |-> "false",
     error |-> Some("Odds API not configured")]

PassThroughOddsTools == {"get_available_sports", "get_odds", "get_scores", "get_event_odds",
                         "search_odds"}

SearchingTools == {"search_odds", "get_comprehensive_game_info", "get_matchup_cards",
                   "get_odds_comparison", "get_odds_card_artifact"}

PassThroughEspnTools == {"get_espn_standings", "get_espn_team_details", "get_espn_news",
                         "search_espn", "get_espn_game_summary"}

\* tools that reshape a successful ESPN answer and return any other answer as it is
ReshapingEspnTools == {"get_espn_scoreboard", "get_espn_teams", "get_espn_team_schedule",
                       "get_formatted_scoreboard", "get_detailed_scoreboard",
                       "get_formatted_standings"}

\* the ESPN handler method a tool calls
EspnMethod(tool) ==
    CASE tool \in {"get_espn_standings", "get_formatted_standings"} -> "get_standings"
      [] tool = "get_espn_teams" -> "get_teams"
      [] tool = "get_espn_team_details" -> "get_team_details"
      [] tool = "get_espn_team_schedule" -> "get_team_schedule"
      [] tool = "get_espn_news" -> "get_news"
      [] tool = "search_espn" -> "search"
      [] tool = "get_espn_game_summary" -> "get_game_summary"
      [] OTHER -> "get_scoreboard"

\* get_comprehensive_game_info: the result dict it returns
ComprehensiveResult(w, espnData) ==
    [kind |-> "comprehensive", success |-> "absent", error |-> w.inv.error,
     odds_data |-> w.inv.odds_data, espn_data |-> espnData]

\* an ESPN step whose except branch overwrites the error of the odds step
ComprehensiveEspnOverwriting(w, sessOk) ==
    LET w1 == EspnIssue(w, sessOk, "get_scoreboard", w.inv.sport)
    IN  IF IsNone(w1.exc) THEN w1
        ELSE LET w2 == [w1 EXCEPT !.exc = None,
                                  !.inv.error = Some("ESPN API error: " \o SessionError)]
             IN  Finish(w2, ComprehensiveResult(w2, None))

\* get_comprehensive_game_info from "# Get ESPN scoreboard" on: the call is inside try
ComprehensiveEspn(w, sessOk) ==
    LET w1 == EspnIssue(w, sessOk, "get_scoreboard", w.inv.sport)
    IN  IF IsNone(w1.exc) THEN w1
        ELSE LET w2 == [w1 EXCEPT !.exc = None,
                                  !.inv.error =
                                     IF IsNone(w.inv.error)
                                     THEN Some("ESPN API error: " \o SessionError)
                                     ELSE Some(w.inv.error[1] \o "; ESPN API error: "
                                               \o SessionError)]
             IN  Finish(w2, ComprehensiveResult(w2, None))

\* get_matchup_cards / get_odds_comparison: the games taken from the odds result
GamesOf(query, v) ==
    IF query # NoQuery THEN v.matching_games
    ELSE IF v.success = "true" THEN v.data[1].items ELSE <<>>

\* get_matchup_cards from "if games:" on
MatchupReturn(w) ==
    IF w.inv.games # <<>>
    THEN Finish(w, [kind |-> "cards", success |-> "true", error |-> None,
                    count |-> Len(Take(w.inv.games, 5))])
    ELSE Finish(w, [kind |-> "message", success |-> "false", error |-> None,
                    message |-> "No games found"])

\* a get_matchup_cards that asks ESPN whatever the sport key
MatchupAfterOddsAnySport(w, v, sessOk) ==
    LET w1 == [w EXCEPT !.inv.games = GamesOf(w.inv.query, v)]
    IN  IF w1.inv.games # <<>> /\ w1.inv.flag
        THEN Propagate(EspnIssue(w1, sessOk, "get_scoreboard", w1.inv.sport))
        ELSE MatchupReturn(w1)

\* get_matchup_cards after the odds result v
MatchupAfterOdds(w, v, sessOk) ==
    LET w1 == [w EXCEPT !.inv.games = GamesOf(w.inv.query, v)]
    IN  IF w1.inv.games # <<>> /\ w1.inv.flag /\ InSportMap(w1.inv.sport)
        THEN Propagate(EspnIssue(w1, sessOk, "get_scoreboard", w1.inv.sport))
        ELSE MatchupReturn(w1)

\* get_odds_comparison after the odds result v
ComparisonAfterOdds(w, v) ==
    IF GamesOf(w.inv.query, v) # <<>>
    THEN Finish(w, [kind |-> "formatted", success |-> "true", error |-> None])
    ELSE Finish(w, [kind |-> "message", success |-> "false", error |-> None,
                    message |-> "No odds found"])

\* get_odds_card_artifact after the search result v
ArtifactAfterOdds(w, v) ==
    IF v.matching_games = <<>>
    THEN Finish(w, [kind |-> "artifact", success |-> "false",
                    error |-> Some("No upcoming games found")])
    ELSE LET game == v.matching_games[1].game
             bookmakers == Take(IF IsNone(game.bookmakers) THEN <<>> ELSE game.bookmakers[1], 5)
         IN  IF bookmakers = <<>>
             THEN Finish(w, [kind |-> "artifact", success |-> "false",
                             error |-> Some("No odds available for this game")])
             ELSE Finish(w, [kind |-> "artifact", success |-> "true", error |-> None,
                             total_bookmakers |-> Len(bookmakers)])

\* get_visual_scoreboard: the dict it returns
VisualReturn(w) ==
    Finish(w, [kind |-> "visual", success |-> "true", error |-> None,
               games |-> w.inv.games, total_games |-> Len(w.inv.games)])

\* get_visual_scoreboard after get_scores returned v
VisualAfterScores(w, v, sessOk) ==
    LET w1 == [w EXCEPT !.inv.games = IF v.success = "true" THEN v.data[1].items ELSE <<>>]
    IN  IF w1.inv.flag
        THEN Propagate(OddsIssue(w1, sessOk, "get_odds", w1.inv.sport))
        ELSE VisualReturn(w1)

\* an odds request was issued inside a tool: get_comprehensive_game_info catches the
\* exception it may have raised and goes on with ESPN, every other tool lets it out
AfterOddsIssue(w, sessOk) ==
    IF IsNone(w.exc) THEN w
    ELSE IF w.inv.tool = "get_comprehensive_game_info"
         THEN ComprehensiveEspn([w EXCEPT !.exc = None,
                                          !.inv.error = Some("Odds API error: " \o w.exc[1])],
                                sessOk.espn)
         ELSE Raise(w)

\* a tool resumes: the odds handler method it awaited returned v
ToolAfterOdds(w, v, sessOk) ==
    CASE w.inv.tool \in PassThroughOddsTools -> Finish(w, v)
      [] w.inv.tool = "get_comprehensive_game_info" ->
            ComprehensiveEspn([w EXCEPT !.inv.odds_data = Some(v)], sessOk.espn)
      [] w.inv.tool = "get_matchup_cards" -> MatchupAfterOdds(w, v, sessOk.espn)
      [] w.inv.tool = "get_odds_comparison" -> ComparisonAfterOdds(w, v)
      [] w.inv.tool = "get_odds_card_artifact" -> ArtifactAfterOdds(w, v)
      [] w.inv.tool = "get_visual_scoreboard" ->
            IF w.inv.method = "get_scores"
            THEN VisualAfterScores(w, v, sessOk.odds)
            ELSE VisualReturn(w)

\* a search loop that asks again for the same sport after a failed answer
SearchResumeRetrying(w, r, sessOk) ==
    LET sports == SportsToCheck(w.inv.sport)
        odds == GetOddsReturn(bookmakers_filter, bookmakers_limit, r)
        w1 == [w EXCEPT !.inv.games =
                           @ \o SearchMatches(w.inv.query, sports[w.inv.sportIdx], odds)]
    IN  IF r.success = "false" /\ Len(w.inv.reqs) < 2
        THEN AfterOddsIssue(OddsIssue(w1, sessOk.odds, "search_odds", sports[w1.inv.sportIdx]),
                            sessOk)
        ELSE IF w.inv.sportIdx < Len(sports)
        THEN AfterOddsIssue(OddsIssue([w1 EXCEPT !.inv.sportIdx = @ + 1], sessOk.odds,
                                      "search_odds", sports[w.inv.sportIdx + 1]), sessOk)
        ELSE ToolAfterOdds(w1, SearchReturn(w1.inv.query, w1.inv.games), sessOk)

\* search_odds resumes: the _make_request of its get_odds returned r
SearchResume(w, r, sessOk) ==
    LET sports == SportsToCheck(w.inv.sport)
        odds == GetOddsReturn(bookmakers_filter, bookmakers_limit, r)
        w1 == [w EXCEPT !.inv.games =
                           @ \o SearchMatches(w.inv.query, sports[w.inv.sportIdx], odds)]
    IN  IF w.inv.sportIdx < Len(sports)
        THEN AfterOddsIssue(OddsIssue([w1 EXCEPT !.inv.sportIdx = @ + 1], sessOk.odds,
                                      "search_odds", sports[w.inv.sportIdx + 1]), sessOk)
        ELSE ToolAfterOdds(w1, SearchReturn(w1.inv.query, w1.inv.games), sessOk)

\* a tool resumes: the ESPN handler method it awaited returned r
ToolAfterEspn(w, r) ==
    CASE w.inv.tool \in PassThroughEspnTools -> Finish(w, r)
      [] w.inv.tool \in ReshapingEspnTools ->
            IF r.success = "true" /\ ~IsNone(r.data)
               /\ (w.inv.tool = "get_formatted_standings" => r.data[1].items # <<>>)
            THEN Finish(w, [kind |-> "reshaped", success |-> "true", error |-> None,
                            count |-> Len(r.data[1].items)])
            ELSE Finish(w, r)
      [] w.inv.tool = "get_comprehensive_game_info" ->
            Finish(w, ComprehensiveResult(w, Some(r)))
      [] w.inv.tool = "get_matchup_cards" -> MatchupReturn(w)

---------------------------------------------------------------------------
(* Actions. *)

\* the variables take the values of the world w
Commit(w) ==
    /\ current_key_index' = w.idx
    /\ session' = w.sess
    /\ espn_session' = w.esess
    /\ keyLog' = w.log
    /\ inv' = w.inv
    /\ lastCall' = w.lc
    /\ UNCHANGED <<odds_configured, api_keys, bookmakers_filter_arg, bookmakers_filter,
                   bookmakers_limit, fcase>>

\* the world at the entry of a tool called with the arguments a
Entry(tool, a) ==
    [World EXCEPT !.inv = [IdleInv EXCEPT !.tool = tool, !.sport = a.sport,
                                          !.query = a.query, !.flag = a.flag]]

\* whether aiohttp.ClientSession() succeeds, for each handler that may need a session
SessionChoices ==
    [odds : IF NeedsSession(session) THEN BOOLEAN ELSE {TRUE},
     espn : IF NeedsSession(espn_session) THEN BOOLEAN ELSE {TRUE}]

\* no tool is running and the request counter is within its bound
CanStart == inv.pc = "done" /\ Len(keyLog) < MaxCalls

Args(sports, queries, flags) == [sport : sports, query : queries, flag : flags]

\* a pass-through tool that asks ESPN when no odds handler is configured
OddsPassThroughAskingEspn(tool, method, a, sessOk) ==
    /\ CanStart
    /\ Commit(IF ~odds_configured
              THEN Propagate(EspnIssue(Entry(tool, a), sessOk.espn, "get_scoreboard", a.sport))
              ELSE AfterOddsIssue(OddsIssue(Entry(tool, a), sessOk.odds, method, a.sport),
                                  sessOk))

\* a tool that returns what one odds handler method returns
OddsPassThrough(tool, method, a, sessOk) ==
    /\ CanStart
    /\ Commit(IF ~odds_configured THEN Finish(Entry(tool, a), NotConfigured)
              ELSE AfterOddsIssue(OddsIssue(Entry(tool, a), sessOk.odds, method, a.sport),
                                  sessOk))

\* a tool whose first step is one ESPN handler method
EspnTool(tool, a, sessOk) ==
    /\ inv.pc = "done"
    /\ Commit(Propagate(EspnIssue(Entry(tool, a), sessOk.espn, EspnMethod(tool), a.sport)))

get_available_sports(a, sessOk) ==
    OddsPassThrough("get_available_sports", "get_sports", a, sessOk)

get_odds(a, sessOk) == OddsPassThrough("get_odds", "get_odds", a, sessOk)

get_scores(a, sessOk) == OddsPassThrough("get_scores", "get_scores", a, sessOk)

get_event_odds(a, sessOk) == OddsPassThrough("get_event_odds", "get_event_odds", a, sessOk)

search_odds(a, sessOk) ==
    /\ CanStart
    /\ Commit(IF ~odds_configured THEN Finish(Entry("search_odds", a), NotConfigured)
              ELSE AfterOddsIssue(SearchStart(Entry("search_odds", a), sessOk.odds), sessOk))

get_espn_scoreboard(a, sessOk) == EspnTool("get_espn_scoreboard", a, sessOk)

get_espn_standings(a, sessOk) == EspnTool("get_espn_standings", a, sessOk)

get_espn_teams(a, sessOk) == EspnTool("get_espn_teams", a, sessOk)

get_espn_team_details(a, sessOk) == EspnTool("get_espn_team_details", a, sessOk)

get_espn_team_schedule(a, sessOk) == EspnTool("get_espn_team_schedule", a, sessOk)

get_espn_news(a, sessOk) == EspnTool("get_espn_news", a, sessOk)

search_espn(a, sessOk) == EspnTool("search_espn", a, sessOk)

get_espn_game_summary(a, sessOk) == EspnTool("get_espn_game_summary", a, sessOk)

get_formatted_scoreboard(a, sessOk) == EspnTool("get_formatted_scoreboard", a, sessOk)

get_detailed_scoreboard(a, sessOk) == EspnTool("get_detailed_scoreboard", a, sessOk)

get_formatted_standings(a, sessOk) == EspnTool("get_formatted_standings", a, sessOk)

get_comprehensive_game_info(a, sessOk) ==
    /\ CanStart
    /\ Commit(IF odds_configured
              THEN AfterOddsIssue(SearchStart(Entry("get_comprehensive_game_info", a),
                                              sessOk.odds), sessOk)
              ELSE ComprehensiveEspn(Entry("get_comprehensive_game_info", a), sessOk.espn))

get_matchup_cards(a, sessOk) ==
    /\ CanStart
    /\ Commit(IF ~odds_configured THEN Finish(Entry("get_matchup_cards", a), NotConfigured)
              ELSE IF a.query # NoQuery
              THEN AfterOddsIssue(SearchStart(Entry("get_matchup_cards", a), sessOk.odds),
                                  sessOk)
              ELSE AfterOddsIssue(OddsIssue(Entry("get_matchup_cards", a), sessOk.odds,
                                            "get_odds", a.sport), sessOk))

get_odds_comparison(a, sessOk) ==
    /\ CanStart
    /\ Commit(IF ~odds_configured THEN Finish(Entry("get_odds_comparison", a), NotConfigured)
              ELSE IF a.query # NoQuery
              THEN AfterOddsIssue(SearchStart(Entry("get_odds_comparison", a), sessOk.odds),
                                  sessOk)
              ELSE AfterOddsIssue(OddsIssue(Entry("get_odds_comparison", a), sessOk.odds,
                                            "get_odds", a.sport), sessOk))

get_odds_card_artifact(a, sessOk) ==
    /\ CanStart
    /\ Commit(IF ~odds_configured
              THEN Finish(Entry("get_odds_card_artifact", a), NotConfigured)
              ELSE AfterOddsIssue(SearchStart(Entry("get_odds_card_artifact", a),
                                              sessOk.odds), sessOk))

get_visual_scoreboard(a, sessOk) ==
    /\ CanStart
    /\ Commit(IF ~odds_configured
              THEN Finish(Entry("get_visual_scoreboard", a), VisualNotConfigured)
              ELSE AfterOddsIssue(OddsIssue(Entry("get_visual_scoreboard", a), sessOk.odds,
                                            "get_scores", a.sport), sessOk))

\* get_team_reference: a table lookup, no request
get_team_reference(a) ==
    /\ inv.pc = "done"
    /\ Commit(Finish(Entry("get_team_reference", a),
                     [kind |-> "reference", success |-> "true", error |-> None]))

\* find_team: a table lookup, no request; found is whether find_team_id finds the team
find_team(a, found) ==
    /\ inv.pc = "done"
    /\ Commit(Finish(Entry("find_team", a),
                     IF found
                     THEN [kind |-> "team", success |-> "true", error |-> None]
                     ELSE [kind |-> "message", success |-> "false", error |-> None,
                           message |-> "Team not found"]))

\* the answer to the pending odds request arrives and the tool runs on
OddsResponse(resp, sessOk) ==
    /\ inv.pc = "odds"
    /\ LET r  == MakeRequestReturn(resp)
           w1 == Returned(World, resp, r)
       IN  Commit(IF inv.method = "search_odds"
                  THEN SearchResume(w1, r, sessOk)
                  ELSE ToolAfterOdds(w1, MethodReturn(inv.method, r), sessOk))

\* the answer to the pending ESPN request arrives and the tool runs on
EspnResponse(resp) ==
    /\ inv.pc = "espn"
    /\ LET r == EspnMakeRequestReturn(resp)
       IN  Commit(ToolAfterEspn(Returned(World, resp, r), r))

\* the API key of position i of a configured key list
ApiKey(i) == <<"key", i>>

\* odds_handler = OddsAPIHandler(api_key=...): no filter, the default limit of 5
HandlerConfigs == {[filter |-> None, limit |-> 5]}

Init ==
    /\ odds_configured \in BOOLEAN
    /\ \E n \in 1..MaxKeys :
          api_keys = IF odds_configured THEN [i \in 1..n |-> ApiKey(i)] ELSE <<>>
    /\ current_key_index = 0
    /\ session = "none"
    /\ espn_session = "none"
    /\ \E c \in HandlerConfigs :
          /\ bookmakers_filter_arg = c.filter
          /\ bookmakers_filter = InitFilter(c.filter)
          /\ bookmakers_limit = c.limit
    /\ keyLog = <<>>
    /\ inv = IdleInv
    /\ lastCall = IdleCall
    /\ fcase = [applied |-> FALSE]

OneSport == Args({SportNBA}, {NoQuery}, {FALSE})
SearchArgs == Args({NoSport, SportNBA}, {QueryLa}, {FALSE})

Next ==
    \/ \E a \in OneSport, k \in SessionChoices : get_available_sports(a, k)
    \/ \E a \in OneSport, k \in SessionChoices : get_odds(a, k)
    \/ \E a \in OneSport, k \in SessionChoices : get_scores(a, k)
    \/ \E a \in OneSport, k \in SessionChoices : get_event_odds(a, k)
    \/ \E a \in SearchArgs, k \in SessionChoices : search_odds(a, k)
    \/ \E a \in OneSport, k \in SessionChoices : get_espn_scoreboard(a, k)
    \/ \E a \in OneSport, k \in SessionChoices : get_espn_standings(a, k)
    \/ \E a \in OneSport, k \in SessionChoices : get_espn_teams(a, k)
    \/ \E a \in OneSport, k \in SessionChoices : get_espn_team_details(a, k)
    \/ \E a \in OneSport, k \in SessionChoices : get_espn_team_schedule(a, k)
    \/ \E a \in OneSport, k \in SessionChoices : get_espn_news(a, k)
    \/ \E a \in OneSport, k \in SessionChoices : search_espn(a, k)
    \/ \E a \in OneSport, k \in SessionChoices : get_espn_game_summary(a, k)
    \/ \E a \in SearchArgs, k \in SessionChoices : get_comprehensive_game_info(a, k)
    \/ \E a \in OneSport, k \in SessionChoices : get_formatted_scoreboard(a, k)
    \/ \E a \in Args({NoSport, SportNBA, SportMLB}, {NoQuery, QueryLa}, BOOLEAN),
          k \in SessionChoices : get_matchup_cards(a, k)
    \/ \E a \in OneSport, k \in SessionChoices : get_detailed_scoreboard(a, k)
    \/ \E a \in OneSport, k \in SessionChoices : get_formatted_standings(a, k)
    \/ \E a \in OneSport : get_team_reference(a)
    \/ \E a \in OneSport, found \in BOOLEAN : find_team(a, found)
    \/ \E a \in Args({NoSport, SportNBA}, {NoQuery, QueryLa}, {FALSE}),
          k \in SessionChoices : get_odds_comparison(a, k)
    \/ \E a \in SearchArgs, k \in SessionChoices : get_odds_card_artifact(a, k)
    \/ \E a \in Args({SportNBA}, {NoQuery}, BOOLEAN),
          k \in SessionChoices : get_visual_scoreboard(a, k)
    \/ \E k \in SessionChoices :
          \E resp \in Responses(IF inv.method = "get_event_odds"
                                THEN EventPayloads ELSE OddsPayloads) :
             OddsResponse(resp, k)
    \/ \E resp \in Responses(EspnPayloads) : EspnResponse(resp)

Spec == Init /\ [][Next]_vars

---------------------------------------------------------------------------
(* Key rotation. *)

\* C1: the k-th _make_request call of the odds handler since construction uses
\* api_keys[(k-1) mod N]: the first N calls take the keys in list order and call
\* N+1 takes the first key again.
C1_RoundRobinInCallOrder ==
    \A k \in 1..Len(keyLog) :
       keyLog[k].key = api_keys[((k - 1) % Len(api_keys)) + 1]

\* C1 witness: more than N >= 2 calls were made and call N+1 took the first key.
C1_Witness ==
    /\ Len(api_keys) >= 2
    /\ Len(keyLog) > Len(api_keys)
    /\ keyLog[Len(api_keys) + 1].key = api_keys[1]
    /\ \A i, j \in 1..Len(api_keys) : i # j => keyLog[i].key # keyLog[j].key

\* the calls made so far with the key, and those among them whose GET was sent
CallsWith(key) == Cardinality({k \in 1..Len(keyLog) : keyLog[k].key = key})
SentWith(key) == Cardinality({k \in 1..Len(keyLog) : keyLog[k].key = key /\ keyLog[k].sent})

ConfiguredKeys == {api_keys[i] : i \in 1..Len(api_keys)}

\* C2: at every point of every sequence of odds operations, failed ones included,
\* the numbers of requests made with any two configured keys differ by at most 1.
C2_KeysUsedEvenly ==
    \A a, b \in ConfiguredKeys :
       /\ CallsWith(a) - CallsWith(b) <= 1
       /\ SentWith(a) - SentWith(b) <= 1

\* C2 witness: several operations, one of them a search whose request failed, used
\* N >= 2 keys, and the counts of two keys differ by exactly 1.
C2_Witness ==
    /\ Len(api_keys) >= 2
    /\ Len(keyLog) > Len(api_keys)
    /\ inv.tool = "search_odds"
    /\ inv.errs # {}
    /\ \E a, b \in ConfiguredKeys : SentWith(a) - SentWith(b) = 1

---------------------------------------------------------------------------
(* The error policy of _make_request. *)

\* C6 (as claimed): no _make_request call of either handler lets an exception
\* escape, a failure while obtaining the session included.
C6_NoExceptionEscapes == lastCall.state # "raised"

Is2xx(status) == status >= 200 /\ status < 300

\* C7 (as claimed): a returned result has success = False exactly when the status
\* is non-2xx or an exception occurred, and every 2xx response whose body decodes
\* yields success = True with the decoded payload under data.
C7_FailsExactlyOnNon2xx ==
    lastCall.state = "returned" =>
        LET resp == lastCall.resp[1]
            ret == lastCall.ret[1]
            exception == resp.kind = "exception" \/ (resp.status = 200 /\ ~resp.decodes)
        IN  /\ (ret.success = "false") <=> (exception \/ ~Is2xx(resp.status))
            /\ (~exception /\ Is2xx(resp.status)) =>
                   (ret.success = "true" /\ ret.data = resp.data)

\* C7 (amended): a returned result has success = False exactly when the status is
\* not 200 or an exception occurred (while sending, or while decoding the body);
\* every 200 response whose body decodes yields success = True with the decoded
\* payload under data.
C7_FailsExactlyOnNon200 ==
    lastCall.state = "returned" =>
        LET resp == lastCall.resp[1]
            ret == lastCall.ret[1]
            exception == resp.kind = "exception" \/ (resp.status = 200 /\ ~resp.decodes)
        IN  /\ ret.success \in {"true", "false"}
            /\ (ret.success = "false") <=> (exception \/ resp.status # 200)
            /\ ret.success = "false" => (~IsNone(ret.error) /\ IsNone(ret.data))
            /\ (~exception /\ resp.status = 200) =>
                   (ret.success = "true" /\ ret.data = resp.data /\ ~IsNone(ret.data))

\* C7 witness: a 2xx answer other than 200 was returned as an error.
C7_Witness ==
    /\ lastCall.state = "returned"
    /\ lastCall.resp[1].kind = "http"
    /\ lastCall.resp[1].status = 204
    /\ lastCall.ret[1].success = "false"
    /\ lastCall.ret[1].error = Some("API returned status 204")

---------------------------------------------------------------------------
(* The tool layer. *)

\* the dict d carries one of the vendor errors errs: its success flag is false and
\* its error field is that error's message
CarriesError(d, errs) ==
    /\ d.success = "false"
    /\ ~IsNone(d.error)
    /\ d.error[1] \in errs

\* C8 (as claimed): when a vendor call a tool depends on returned an error object,
\* the value the tool returns carries that error (for get_comprehensive_game_info,
\* under odds_data or espn_data).
C8_ToolsForwardErrors ==
    (inv.pc = "done" /\ ~inv.raised /\ inv.errs # {}) =>
        LET result == inv.result[1]
        IN  IF "odds_data" \in DOMAIN result
            THEN \/ (~IsNone(result.odds_data) /\ CarriesError(result.odds_data[1], inv.errs))
                 \/ (~IsNone(result.espn_data) /\ CarriesError(result.espn_data[1], inv.errs))
            ELSE CarriesError(result, inv.errs)

\* two requests of one invocation ask the same vendor for the same endpoint
SameRequest(q, r) == q.vendor = r.vendor /\ q.method = r.method /\ q.sport = r.sport

\* after a failed answer the invocation issues no further request for that endpoint
NoRetry ==
    \A i, j \in 1..Len(inv.reqs) :
       (i < j /\ inv.reqs[i].failed) => ~SameRequest(inv.reqs[i], inv.reqs[j])

\* C9 (as claimed): every _make_request call issues exactly one GET whatever its
\* outcome, and nothing is asked again after a failed answer.
C9_ExactlyOneGetPerCall ==
    /\ lastCall.state # "none" => lastCall.gets = 1
    /\ NoRetry

\* C9 (amended): every _make_request call issues at most one GET: exactly one once
\* its session is obtained, none when obtaining the session raises; an invocation
\* issues one GET per request it makes and asks nothing again after a failed answer.
C9_AtMostOneGetNoRetry ==
    /\ lastCall.state \in {"pending", "returned"} => lastCall.gets = 1
    /\ lastCall.state = "raised" => lastCall.gets = 0
    /\ inv.gets = Len(inv.reqs)
    /\ NoRetry

\* C9 witness: a search over the four sports went on after its first answer failed
\* and issued four GETs in all.
C9_Witness ==
    /\ inv.pc = "done"
    /\ inv.tool = "search_odds"
    /\ Len(inv.reqs) = 4
    /\ inv.reqs[1].failed
    /\ inv.gets = 4

\* C10 (as claimed): every tool invocation issues at most two HTTP calls.
C10_AtMostTwoCalls == inv.gets <= 2

\* the tool searches the odds of the four popular sports: a searching tool called
\* with a team query and without a sport key
SearchesAllSports ==
    /\ inv.tool \in SearchingTools
    /\ inv.sport = NoSport
    /\ (inv.tool \in {"get_matchup_cards", "get_odds_comparison"} => inv.query # NoQuery)

\* C10 (amended): a tool invocation issues at most two HTTP calls, except that a
\* tool searching without a sport key asks for the odds of four sports: then at
\* most four calls, and five for get_comprehensive_game_info, which asks ESPN too.
C10_CallsPerInvocation ==
    inv.gets <= (IF ~SearchesAllSports THEN 2
                 ELSE IF inv.tool = "get_comprehensive_game_info" THEN 5 ELSE 4)

\* C10 witness: get_comprehensive_game_info without a sport key made five calls and
\* search_odds is the tool of the claim's other case.
C10_Witness ==
    /\ inv.pc = "done"
    /\ inv.tool = "get_comprehensive_game_info"
    /\ inv.sport = NoSport
    /\ inv.gets = 5

---------------------------------------------------------------------------
(* Pure functions are checked on their own: the handlers stay as            *)
(* constructed and fcase holds the arguments and, once applied, the result. *)

HandlersUnused ==
    /\ odds_configured = TRUE
    /\ api_keys = <<"k1">>
    /\ current_key_index = 0
    /\ session = "none"
    /\ espn_session = "none"
    /\ bookmakers_filter_arg = None
    /\ bookmakers_filter = InitFilter(None)
    /\ bookmakers_limit = 5
    /\ keyLog = <<>>

PureInit ==
    /\ HandlersUnused
    /\ inv = IdleInv
    /\ lastCall = IdleCall

PureFrame ==
    UNCHANGED <<odds_configured, api_keys, current_key_index, session, espn_session,
                bookmakers_filter_arg, bookmakers_filter, bookmakers_limit, keyLog, inv,
                lastCall>>

---------------------------------------------------------------------------
(* team_reference.py *)

\* NFL_TEAMS, in the order of the dict literal
NFL_TEAMS == <<
    [name |-> <<"A", "r", "i", "z", "o", "n", "a", " ", "C", "a", "r", "d", "i", "n", "a", "l", "s">>,
     id |-> "22", abbr |-> <<"A", "R", "I">>, division |-> "NFC West"],
    [name |-> <<"A", "t", "l", "a", "n", "t", "a", " ", "F", "a", "l", "c", "o", "n", "s">>,
     id |-> "1", abbr |-> <<"A", "T", "L">>, division |-> "NFC South"],
    [name |-> <<"B", "a", "l", "t", "i", "m", "o", "r", "e", " ", "R", "a", "v", "e", "n", "s">>,
     id |-> "33", abbr |-> <<"B", "A", "L">>, division |-> "AFC North"],
    [name |-> <<"B", "u", "f", "f", "a", "l", "o", " ", "B", "i", "l", "l", "s">>,
     id |-> "2", abbr |-> <<"B", "U", "F">>, division |-> "AFC East"],
    [name |-> <<"C", "a", "r", "o", "l", "i", "n", "a", " ", "P", "a", "n", "t", "h", "e", "r", "s">>,
     id |-> "29", abbr |-> <<"C", "A", "R">>, division |-> "NFC South"],
    [name |-> <<"C", "h", "i", "c", "a", "g", "o", " ", "B", "e", "a", "r", "s">>,
     id |-> "3", abbr |-> <<"C", "H", "I">>, division |-> "NFC North"],
    [name |-> <<"C", "i", "n", "c", "i", "n", "n", "a", "t", "i", " ", "B", "e", "n", "g", "a", "l", "s">>,
     id |-> "4", abbr |-> <<"C", "I", "N">>, division |-> "AFC North"],
    [name |-> <<"C", "l", "e", "v", "e", "l", "a", "n", "d", " ", "B", "r", "o", "w", "n", "s">>,
     id |-> "5", abbr |-> <<"C", "L", "E">>, division |-> "AFC North"],
    [name |-> <<"D", "a", "l", "l", "a", "s", " ", "C", "o", "w", "b", "o", "y", "s">>,
     id |-> "6", abbr |-> <<"D", "A", "L">>, division |-> "NFC East"],
    [name |-> <<"D", "e", "n", "v", "e", "r", " ", "B", "r", "o", "n", "c", "o", "s">>,
     id |-> "7", abbr |-> <<"D", "E", "N">>, division |-> "AFC West"],
    [name |-> <<"D", "e", "t", "r", "o", "i", "t", " ", "L", "i", "o", "n", "s">>,
     id |-> "8", abbr |-> <<"D", "E", "T">>, division |-> "NFC North"],
    [name |-> <<"G", "r", "e", "e", "n", " ", "B", "a", "y", " ", "P", "a", "c", "k", "e", "r", "s">>,
     id |-> "9", abbr |-> <<"G", "B">>, division |-> "NFC North"],
    [name |-> <<"H", "o", "u", "s", "t", "o", "n", " ", "T", "e", "x", "a", "n", "s">>,
     id |-> "34", abbr |-> <<"H", "O", "U">>, division |-> "AFC South"],
    [name |-> <<"I", "n", "d", "i", "a", "n", "a", "p", "o", "l", "i", "s", " ", "C", "o", "l", "t", "s">>,
     id |-> "11", abbr |-> <<"I", "N", "D">>, division |-> "AFC South"],
    [name |-> <<"J", "a", "c", "k", "s", "o", "n", "v", "i", "l", "l", "e", " ", "J", "a", "g", "u", "a", "r", "s">>,
     id |-> "30", abbr |-> <<"J", "A", "X">>, division |-> "AFC South"],
    [name |-> <<"K", "a", "n", "s", "a", "s", " ", "C", "i", "t", "y", " ", "C", "h", "i", "e", "f", "s">>,
     id |-> "12", abbr |-> <<"K", "C">>, division |-> "AFC West"],
    [name |-> <<"L", "a", "s", " ", "V", "e", "g", "a", "s", " ", "R", "a", "i", "d", "e", "r", "s">>,
     id |-> "13", abbr |-> <<"L", "V">>, division |-> "AFC West"],
    [name |-> <<"L", "o", "s", " ", "A", "n", "g", "e", "l", "e", "s", " ", "C", "h", "a", "r", "g", "e", "r", "s">>,
     id |-> "24", abbr |-> <<"L", "A", "C">>, division |-> "AFC West"],
    [name |-> <<"L", "o", "s", " ", "A", "n", "g", "e", "l", "e", "s", " ", "R", "a", "m", "s">>,
     id |-> "14", abbr |-> <<"L", "A", "R">>, division |-> "NFC West"],
    [name |-> <<"M", "i", "a", "m", "i", " ", "D", "o", "l", "p", "h", "i", "n", "s">>,
     id |-> "15", abbr |-> <<"M", "I", "A">>, division |-> "AFC East"],
    [name |-> <<"M", "i", "n", "n", "e", "s", "o", "t", "a", " ", "V", "i", "k", "i", "n", "g", "s">>,
     id |-> "16", abbr |-> <<"M", "I", "N">>, division |-> "NFC North"],
    [name |-> <<"N", "e", "w", " ", "E", "n", "g", "l", "a", "n", "d", " ", "P", "a", "t", "r", "i", "o", "t", "s">>,
     id |-> "17", abbr |-> <<"N", "E">>, division |-> "AFC East"],
    [name |-> <<"N", "e", "w", " ", "O", "r", "l", "e", "a", "n", "s", " ", "S", "a", "i", "n", "t", "s">>,
     id |-> "18", abbr |-> <<"N", "O">>, division |-> "NFC South"],
    [name |-> <<"N", "e", "w", " ", "Y", "o", "r", "k", " ", "G", "i", "a", "n", "t", "s">>,
     id |-> "19", abbr |-> <<"N", "Y", "G">>, division |-> "NFC East"],
    [name |-> <<"N", "e", "w", " ", "Y", "o", "r", "k", " ", "J", "e", "t", "s">>,
     id |-> "20", abbr |-> <<"N", "Y", "J">>, division |-> "AFC East"],
    [name |-> <<"P", "h", "i", "l", "a", "d", "e", "l", "p", "h", "i", "a", " ", "E", "a", "g", "l", "e", "s">>,
     id |-> "21", abbr |-> <<"P", "H", "I">>, division |-> "NFC East"],
    [name |-> <<"P", "i", "t", "t", "s", "b", "u", "r", "g", "h", " ", "S", "t", "e", "e", "l", "e", "r", "s">>,
     id |-> "23", abbr |-> <<"P", "I", "T">>, division |-> "AFC North"],
    [name |-> <<"S", "a", "n", " ", "F", "r", "a", "n", "c", "i", "s", "c", "o", " ", "4", "9", "e", "r", "s">>,
     id |-> "25", abbr |-> <<"S", "F">>, division |-> "NFC West"],
    [name |-> <<"S", "e", "a", "t", "t", "l", "e", " ", "S", "e", "a", "h", "a", "w", "k", "s">>,
     id |-> "26", abbr |-> <<"S", "E", "A">>, division |-> "NFC West"],
    [name |-> <<"T", "a", "m", "p", "a", " ", "B", "a", "y", " ", "B", "u", "c", "c", "a", "n", "e", "e", "r", "s">>,
     id |-> "27", abbr |-> <<"T", "B">>, division |-> "NFC South"],
    [name |-> <<"T", "e", "n", "n", "e", "s", "s", "e", "e", " ", "T", "i", "t", "a", "n", "s">>,
     id |-> "10", abbr |-> <<"T", "E", "N">>, division |-> "AFC South"],
    [name |-> <<"W", "a", "s", "h", "i", "n", "g", "t", "o", "n", " ", "C", "o", "m", "m", "a", "n", "d", "e", "r", "s">>,
     id |-> "28", abbr |-> <<"W", "A", "S">>, division |-> "NFC East"]
    >>

\* NBA_TEAMS, in the order of the dict literal
NBA_TEAMS == <<
    [name |-> <<"A", "t", "l", "a", "n", "t", "a", " ", "H", "a", "w", "k", "s">>,
     id |-> "1", abbr |-> <<"A", "T", "L">>, division |-> "Southeast"],
    [name |-> <<"B", "o", "s", "t", "o", "n", " ", "C", "e", "l", "t", "i", "c", "s">>,
     id |-> "2", abbr |-> <<"B", "O", "S">>, division |-> "Atlantic"],
    [name |-> <<"B", "r", "o", "o", "k", "l", "y", "n", " ", "N", "e", "t", "s">>,
     id |-> "17", abbr |-> <<"B", "K", "N">>, division |-> "Atlantic"],
    [name |-> <<"C", "h", "a", "r", "l", "o", "t", "t", "e", " ", "H", "o", "r", "n", "e", "t", "s">>,
     id |-> "30", abbr |-> <<"C", "H", "A">>, division |-> "Southeast"],
    [name |-> <<"C", "h", "i", "c", "a", "g", "o", " ", "B", "u", "l", "l", "s">>,
     id |-> "4", abbr |-> <<"C", "H", "I">>, division |-> "Central"],
    [name |-> <<"C", "l", "e", "v", "e", "l", "a", "n", "d", " ", "C", "a", "v", "a", "l", "i", "e", "r", "s">>,
     id |-> "5", abbr |-> <<"C", "L", "E">>, division |-> "Central"],
    [name |-> <<"D", "a", "l", "l", "a", "s", " ", "M", "a", "v", "e", "r", "i", "c", "k", "s">>,
     id |-> "6", abbr |-> <<"D", "A", "L">>, division |-> "Southwest"],
    [name |-> <<"D", "e", "n", "v", "e", "r", " ", "N", "u", "g", "g", "e", "t", "s">>,
     id |-> "7", abbr |-> <<"D", "E", "N">>, division |-> "Northwest"],
    [name |-> <<"D", "e", "t", "r", "o", "i", "t", " ", "P", "i", "s", "t", "o", "n", "s">>,
     id |-> "8", abbr |-> <<"D", "E", "T">>, division |-> "Central"],
    [name |-> <<"G", "o", "l", "d", "e", "n", " ", "S", "t", "a", "t", "e", " ", "W", "a", "r", "r", "i", "o", "r", "s">>,
     id |-> "9", abbr |-> <<"G", "S", "W">>, division |-> "Pacific"],
    [name |-> <<"H", "o", "u", "s", "t", "o", "n", " ", "R", "o", "c", "k", "e", "t", "s">>,
     id |-> "10", abbr |-> <<"H", "O", "U">>, division |-> "Southwest"],
    [name |-> <<"I", "n", "d", "i", "a", "n", "a", " ", "P", "a", "c", "e", "r", "s">>,
     id |-> "11", abbr |-> <<"I", "N", "D">>, division |-> "Central"],
    [name |-> <<"L", "A", " ", "C", "l", "i", "p", "p", "e", "r", "s">>,
     id |-> "12", abbr |-> <<"L", "A", "C">>, division |-> "Pacific"],
    [name |-> <<"L", "o", "s", " ", "A", "n", "g", "e", "l", "e", "s", " ", "L", "a", "k", "e", "r", "s">>,
     id |-> "13", abbr |-> <<"L", "A", "L">>, division |-> "Pacific"],
    [name |-> <<"M", "e", "m", "p", "h", "i", "s", " ", "G", "r", "i", "z", "z", "l", "i", "e", "s">>,
     id |-> "29", abbr |-> <<"M", "E", "M">>, division |-> "Southwest"],
    [name |-> <<"M", "i", "a", "m", "i", " ", "H", "e", "a", "t">>,
     id |-> "14", abbr |-> <<"M", "I", "A">>, division |-> "Southeast"],
    [name |-> <<"M", "i", "l", "w", "a", "u", "k", "e", "e", " ", "B", "u", "c", "k", "s">>,
     id |-> "15", abbr |-> <<"M", "I", "L">>, division |-> "Central"],
    [name |-> <<"M", "i", "n", "n", "e", "s", "o", "t", "a", " ", "T", "i", "m", "b", "e", "r", "w", "o", "l", "v", "e", "s">>,
     id |-> "16", abbr |-> <<"M", "I", "N">>, division |-> "Northwest"],
    [name |-> <<"N", "e", "w", " ", "O", "r", "l", "e", "a", "n", "s", " ", "P", "e", "l", "i", "c", "a", "n", "s">>,
     id |-> "3", abbr |-> <<"N", "O", "P">>, division |-> "Southwest"],
    [name |-> <<"N", "e", "w", " ", "Y", "o", "r", "k", " ", "K", "n", "i", "c", "k", "s">>,
     id |-> "18", abbr |-> <<"N", "Y", "K">>, division |-> "Atlantic"],
    [name |-> <<"O", "k", "l", "a", "h", "o", "m", "a", " ", "C", "i", "t", "y", " ", "T", "h", "u", "n", "d", "e", "r">>,
     id |-> "25", abbr |-> <<"O", "K", "C">>, division |-> "Northwest"],
    [name |-> <<"O", "r", "l", "a", "n", "d", "o", " ", "M", "a", "g", "i", "c">>,
     id |-> "19", abbr |-> <<"O", "R", "L">>, division |-> "Southeast"],
    [name |-> <<"P", "h", "i", "l", "a", "d", "e", "l", "p", "h", "i", "a", " ", "7", "6", "e", "r", "s">>,
     id |-> "20", abbr |-> <<"P", "H", "I">>, division |-> "Atlantic"],
    [name |-> <<"P", "h", "o", "e", "n", "i", "x", " ", "S", "u", "n", "s">>,
     id |-> "21", abbr |-> <<"P", "H", "X">>, division |-> "Pacific"],
    [name |-> <<"P", "o", "r", "t", "l", "a", "n", "d", " ", "T", "r", "a", "i", "l", " ", "B", "l", "a", "z", "e", "r", "s">>,
     id |-> "22", abbr |-> <<"P", "O", "R">>, division |-> "Northwest"],
    [name |-> <<"S", "a", "c", "r", "a", "m", "e", "n", "t", "o", " ", "K", "i", "n", "g", "s">>,
     id |-> "23", abbr |-> <<"S", "A", "C">>, division |-> "Pacific"],
    [name |-> <<"S", "a", "n", " ", "A", "n", "t", "o", "n", "i", "o", " ", "S", "p", "u", "r", "s">>,
     id |-> "24", abbr |-> <<"S", "A", "S">>, division |-> "Southwest"],
    [name |-> <<"T", "o", "r", "o", "n", "t", "o", " ", "R", "a", "p", "t", "o", "r", "s">>,
     id |-> "28", abbr |-> <<"T", "O", "R">>, division |-> "Atlantic"],
    [name |-> <<"U", "t", "a", "h", " ", "J", "a", "z", "z">>,
     id |-> "26", abbr |-> <<"U", "T", "A">>, division |-> "Northwest"],
    [name |-> <<"W", "a", "s", "h", "i", "n", "g", "t", "o", "n", " ", "W", "i", "z", "a", "r", "d", "s">>,
     id |-> "27", abbr |-> <<"W", "A", "S">>, division |-> "Southeast"]
    >>

\* NHL_TEAMS, in the order of the dict literal
NHL_TEAMS == <<
    [name |-> <<"A", "n", "a", "h", "e", "i", "m", " ", "D", "u", "c", "k", "s">>,
     id |-> "25", abbr |-> <<"A", "N", "A">>, division |-> "Pacific"],
    [name |-> <<"A", "r", "i", "z", "o", "n", "a", " ", "C", "o", "y", "o", "t", "e", "s">>,
     id |-> "28", abbr |-> <<"A", "R", "I">>, division |-> "Central"],
    [name |-> <<"B", "o", "s", "t", "o", "n", " ", "B", "r", "u", "i", "n", "s">>,
     id |-> "6", abbr |-> <<"B", "O", "S">>, division |-> "Atlantic"],
    [name |-> <<"B", "u", "f", "f", "a", "l", "o", " ", "S", "a", "b", "r", "e", "s">>,
     id |-> "7", abbr |-> <<"B", "U", "F">>, division |-> "Atlantic"],
    [name |-> <<"C", "a", "l", "g", "a", "r", "y", " ", "F", "l", "a", "m", "e", "s">>,
     id |-> "20", abbr |-> <<"C", "G", "Y">>, division |-> "Pacific"],
    [name |-> <<"C", "a", "r", "o", "l", "i", "n", "a", " ", "H", "u", "r", "r", "i", "c", "a", "n", "e", "s">>,
     id |-> "12", abbr |-> <<"C", "A", "R">>, division |-> "Metropolitan"],
    [name |-> <<"C", "h", "i", "c", "a", "g", "o", " ", "B", "l", "a", "c", "k", "h", "a", "w", "k", "s">>,
     id |-> "16", abbr |-> <<"C", "H", "I">>, division |-> "Central"],
    [name |-> <<"C", "o", "l", "o", "r", "a", "d", "o", " ", "A", "v", "a", "l", "a", "n", "c", "h", "e">>,
     id |-> "21", abbr |-> <<"C", "O", "L">>, division |-> "Central"],
    [name |-> <<"C", "o", "l", "u", "m", "b", "u", "s", " ", "B", "l", "u", "e", " ", "J", "a", "c", "k", "e", "t", "s">>,
     id |-> "29", abbr |-> <<"C", "B", "J">>, division |-> "Metropolitan"],
    [name |-> <<"D", "a", "l", "l", "a", "s", " ", "S", "t", "a", "r", "s">>,
     id |-> "25", abbr |-> <<"D", "A", "L">>, division |-> "Central"],
    [name |-> <<"D", "e", "t", "r", "o", "i", "t", " ", "R", "e", "d", " ", "W", "i", "n", "g", "s">>,
     id |-> "17", abbr |-> <<"D", "E", "T">>, division |-> "Atlantic"],
    [name |-> <<"E", "d", "m", "o", "n", "t", "o", "n", " ", "O", "i", "l", "e", "r", "s">>,
     id |-> "22", abbr |-> <<"E", "D", "M">>, division |-> "Pacific"],
    [name |-> <<"F", "l", "o", "r", "i", "d", "a", " ", "P", "a", "n", "t", "h", "e", "r", "s">>,
     id |-> "13", abbr |-> <<"F", "L", "A">>, division |-> "Atlantic"],
    [name |-> <<"L", "o", "s", " ", "A", "n", "g", "e", "l", "e", "s", " ", "K", "i", "n", "g", "s">>,
     id |-> "26", abbr |-> <<"L", "A", "K">>, division |-> "Pacific"],
    [name |-> <<"M", "i", "n", "n", "e", "s", "o", "t", "a", " ", "W", "i", "l", "d">>,
     id |-> "30", abbr |-> <<"M", "I", "N">>, division |-> "Central"],
    [name |-> <<"M", "o", "n", "t", "r", "e", "a", "l", " ", "C", "a", "n", "a", "d", "i", "e", "n", "s">>,
     id |-> "8", abbr |-> <<"M", "T", "L">>, division |-> "Atlantic"],
    [name |-> <<"N", "a", "s", "h", "v", "i", "l", "l", "e", " ", "P", "r", "e", "d", "a", "t", "o", "r", "s">>,
     id |-> "18", abbr |-> <<"N", "S", "H">>, division |-> "Central"],
    [name |-> <<"N", "e", "w", " ", "J", "e", "r", "s", "e", "y", " ", "D", "e", "v", "i", "l", "s">>,
     id |-> "1", abbr |-> <<"N", "J", "D">>, division |-> "Metropolitan"],
    [name |-> <<"N", "e", "w", " ", "Y", "o", "r", "k", " ", "I", "s", "l", "a", "n", "d", "e", "r", "s">>,
     id |-> "2", abbr |-> <<"N", "Y", "I">>, division |-> "Metropolitan"],
    [name |-> <<"N", "e", "w", " ", "Y", "o", "r", "k", " ", "R", "a", "n", "g", "e", "r", "s">>,
     id |-> "3", abbr |-> <<"N", "Y", "R">>, division |-> "Metropolitan"],
    [name |-> <<"O", "t", "t", "a", "w", "a", " ", "S", "e", "n", "a", "t", "o", "r", "s">>,
     id |-> "9", abbr |-> <<"O", "T", "T">>, division |-> "Atlantic"],
    [name |-> <<"P", "h", "i", "l", "a", "d", "e", "l", "p", "h", "i", "a", " ", "F", "l", "y", "e", "r", "s">>,
     id |-> "4", abbr |-> <<"P", "H", "I">>, division |-> "Metropolitan"],
    [name |-> <<"P", "i", "t", "t", "s", "b", "u", "r", "g", "h", " ", "P", "e", "n", "g", "u", "i", "n", "s">>,
     id |-> "5", abbr |-> <<"P", "I", "T">>, division |-> "Metropolitan"],
    [name |-> <<"S", "a", "n", " ", "J", "o", "s", "e", " ", "S", "h", "a", "r", "k", "s">>,
     id |-> "28", abbr |-> <<"S", "J", "S">>, division |-> "Pacific"],
    [name |-> <<"S", "e", "a", "t", "t", "l", "e", " ", "K", "r", "a", "k", "e", "n">>,
     id |-> "55", abbr |-> <<"S", "E", "A">>, division |-> "Pacific"],
    [name |-> <<"S", "t", ".", " ", "L", "o", "u", "i", "s", " ", "B", "l", "u", "e", "s">>,
     id |-> "19", abbr |-> <<"S", "T", "L">>, division |-> "Central"],
    [name |-> <<"T", "a", "m", "p", "a", " ", "B", "a", "y", " ", "L", "i", "g", "h", "t", "n", "i", "n", "g">>,
     id |-> "14", abbr |-> <<"T", "B", "L">>, division |-> "Atlantic"],
    [name |-> <<"T", "o", "r", "o", "n", "t", "o", " ", "M", "a", "p", "l", "e", " ", "L", "e", "a", "f", "s">>,
     id |-> "10", abbr |-> <<"T", "O", "R">>, division |-> "Atlantic"],
    [name |-> <<"V", "a", "n", "c", "o", "u", "v", "e", "r", " ", "C", "a", "n", "u", "c", "k", "s">>,
     id |-> "23", abbr |-> <<"V", "A", "N">>, division |-> "Pacific"],
    [name |-> <<"V", "e", "g", "a", "s", " ", "G", "o", "l", "d", "e", "n", " ", "K", "n", "i", "g", "h", "t", "s">>,
     id |-> "54", abbr |-> <<"V", "G", "K">>, division |-> "Pacific"],
    [name |-> <<"W", "a", "s", "h", "i", "n", "g", "t", "o", "n", " ", "C", "a", "p", "i", "t", "a", "l", "s">>,
     id |-> "15", abbr |-> <<"W", "S", "H">>, division |-> "Metropolitan"],
    [name |-> <<"W", "i", "n", "n", "i", "p", "e", "g", " ", "J", "e", "t", "s">>,
     id |-> "52", abbr |-> <<"W", "P", "G">>, division |-> "Central"]
    >>

LeagueNFL == <<"n", "f", "l">>
LeagueNBA == <<"n", "b", "a">>
LeagueNHL == <<"n", "h", "l">>
LeagueMLB == <<"m", "l", "b">>

\* find_team_id: the table of a league, None for an unknown league
TeamsOf(league) ==
    IF league = LeagueNFL THEN Some(NFL_TEAMS)
    ELSE IF league = LeagueNBA THEN Some(NBA_TEAMS)
    ELSE IF league = LeagueNHL THEN Some(NHL_TEAMS)
    ELSE None

\* find_team_id: the loop over teams.items(), from entry i on
RECURSIVE FirstMatch(_, _, _)
FirstMatch(teams, team_name_lower, i) ==
    IF i > Len(teams) THEN None
    ELSE IF \/ Contains(team_name_lower, Lower(teams[i].name))
            \/ Lower(teams[i].abbr) = team_name_lower
         THEN Some(teams[i])
         ELSE FirstMatch(teams, team_name_lower, i + 1)

\* find_team_id
FindTeamId(team_name, league) ==
    LET teams == TeamsOf(Lower(league))
    IN  IF IsNone(teams) THEN None
        ELSE FirstMatch(teams[1], Lower(team_name), 1)

\* the letter cases a query is spelled in
Spell(s, spelling) ==
    IF spelling = "lower" THEN Lower(s)
    ELSE IF spelling = "upper" THEN Upper(s)
    ELSE s

\* the query of a case: the full name of entry team of the table, the part of it
\* from character from to character to, or its abbreviation
QueryOf(c) ==
    LET entry == TeamsOf(Lower(c.league))[1][c.team]
    IN  Spell(IF c.kind = "abbr" THEN entry.abbr
              ELSE IF c.kind = "partial" THEN SubSeq(entry.name, c.from, c.to)
              ELSE entry.name,
              c.spelling)

TeamCases ==
    {c \in [league : {LeagueNFL, Upper(LeagueNBA), LeagueNHL},
            team : 1..Len(NFL_TEAMS),
            kind : {"exact", "abbr", "partial"},
            from : 1..MaxNameLen, to : 1..MaxNameLen,
            spelling : {"as_is", "lower", "upper"}] :
        /\ c.team <= Len(TeamsOf(Lower(c.league))[1])
        /\ IF c.kind = "partial"
           THEN c.from <= c.to /\ c.to <= Len(TeamsOf(Lower(c.league))[1][c.team].name)
           ELSE c.from = 1 /\ c.to = 1}

InitTeams ==
    /\ PureInit
    /\ \E c \in TeamCases :
          fcase = [applied |-> FALSE, league |-> c.league, team |-> c.team, kind |-> c.kind,
                   query |-> QueryOf(c), result |-> None]

\* one call of find_team_id
FindTeam ==
    /\ ~fcase.applied
    /\ fcase' = [fcase EXCEPT !.applied = TRUE,
                              !.result = FindTeamId(fcase.query, fcase.league)]
    /\ PureFrame

\* find_team_id for a league without a table
FindTeamUnknownLeague ==
    /\ ~fcase.applied
    /\ fcase' = [fcase EXCEPT !.applied = TRUE, !.league = LeagueMLB, !.team = 0,
                              !.result = FindTeamId(fcase.query, LeagueMLB)]
    /\ PureFrame

NextTeams == FindTeam \/ FindTeamUnknownLeague

SpecTeams == InitTeams /\ [][NextTeams]_vars

\* C11 (as claimed): find_team_id called with a team's exact full name, a part of
\* its name or its abbreviation, in any letter case, returns that team's record.
C11_LookupReturnsTheTeam ==
    (fcase.applied /\ fcase.team > 0) =>
        fcase.result = Some(TeamsOf(Lower(fcase.league))[1][fcase.team])

---------------------------------------------------------------------------
(* formatter.py.  A str is a TLA+ string; a team name, which the code      *)
(* slices and splits, is a sequence of characters until it is printed.     *)
(* The box-drawing characters are written "|", "-" and "+", the degree     *)
(* sign "'": one character each, as in the source.  A dict is a record     *)
(* whose fields are None for a missing key.                                *)

\* JSON null where a team name is expected
Null == <<"null">>

\* the str of a sequence of characters
RECURSIVE Str(_)
Str(cs) == IF cs = <<>> THEN "" ELSE Head(cs) \o Str(Tail(cs))

\* c * n
RECURSIVE Repeat(_, _)
Repeat(c, n) == IF n <= 0 THEN "" ELSE c \o Repeat(c, n - 1)

\* str.center(width)
Center(s, width) ==
    LET pad == width - Len(s)
        left == (pad \div 2) + (IF pad % 2 = 1 /\ width % 2 = 1 THEN 1 ELSE 0)
    IN  IF pad <= 0 THEN s
        ELSE Repeat(" ", left) \o s \o Repeat(" ", pad - left)

\* f"{s:^width}"
FormatCenter(s, width) ==
    LET pad == width - Len(s)
    IN  IF pad <= 0 THEN s
        ELSE Repeat(" ", pad \div 2) \o s \o Repeat(" ", pad - (pad \div 2))

\* str.ljust(width), f"{s:<width}" and f"{s:width}" for a str
Ljust(s, width) == s \o Repeat(" ", width - Len(s))

\* str.rjust(width) and f"{s:>width}"
Rjust(s, width) == Repeat(" ", width - Len(s)) \o s

Digits == <<"0", "1", "2", "3", "4", "5", "6", "7", "8", "9">>

\* str(n) for a natural number
RECURSIVE NatStr(_)
NatStr(n) == IF n < 10 THEN Digits[n + 1] ELSE NatStr(n \div 10) \o Digits[(n % 10) + 1]

\* str(n) for an int
IntStr(n) == IF n < 0 THEN "-" \o NatStr(-n) ELSE NatStr(n)

\* ', '.join(strs)
RECURSIVE JoinComma(_)
JoinComma(strs) ==
    IF strs = <<>> THEN ""
    ELSE IF Len(strs) = 1 THEN strs[1]
    ELSE strs[1] \o ", " \o JoinComma(Tail(strs))

\* name.split(): the words of a sequence of characters
RECURSIVE Words(_, _)
Words(cs, word) ==
    IF cs = <<>> THEN (IF word = <<>> THEN <<>> ELSE <<word>>)
    ELSE IF Head(cs) = " "
         THEN (IF word = <<>> THEN <<>> ELSE <<word>>) \o Words(Tail(cs), <<>>)
         ELSE Words(Tail(cs), Append(word, Head(cs)))

\* ' '.join(words)
RECURSIVE JoinSpace(_)
JoinSpace(words) ==
    IF words = <<>> THEN <<>>
    ELSE IF Len(words) = 1 THEN words[1]
    ELSE words[1] \o <<" ">> \o JoinSpace(Tail(words))

Ellipsis == <<".", ".", ".">>

\* shorten_name of format_matchup_card
ShortenName(name, max_len) ==
    IF Len(name) <= max_len THEN name
    ELSE LET words == Words(name, <<>>)
             last_word == words[Len(words)]
             remaining == max_len - Len(last_word) - 1
             first_part == JoinSpace(SubSeq(words, 1, Len(words) - 1))
         IN  IF Len(words) > 1 /\ Len(last_word) <= max_len - 3
             THEN IF Len(first_part) <= remaining
                  THEN name
                  ELSE Take(first_part, remaining - 2) \o Ellipsis \o <<" ">> \o last_word
             ELSE Take(name, max_len - 3) \o Ellipsis

\* width of format_matchup_card and format_game_summary
CardWidth == 66

\* one line of a card between its side borders
Row(content) == "|" \o content \o "|"

\* a line of the returned str with the part of the card it belongs to
Line(part, text) == [part |-> part, text |-> text]
BlankRow == Line("frame", Row(Repeat(" ", CardWidth - 2)))
RuleRow == Line("frame", "+" \o Repeat("-", CardWidth - 2) \o "+")

\* d.get(key, default) for a field read from a dict
Get(field, default) == IF IsNone(field) THEN default ELSE field[1]

\* truth value of a str
Truthy(v) == v # ""

\* datetime.fromisoformat(...).strftime('%a, %b %d @ %I:%M %p'); None when it raises
ParseTime(commence_time) ==
    IF commence_time = "2025-01-04T19:30:00Z" THEN Some("Sat, Jan 04 @ 07:30 PM")
    ELSE None

\* a time_str without the placeholder
TimeStrRaw(game) == Get(game.commence_time, "")

\* format_matchup_card: time_str
TimeStr(game) ==
    LET commence_time == Get(game.commence_time, "")
    IN  IF Truthy(commence_time)
        THEN IF IsNone(ParseTime(commence_time)) THEN commence_time
             ELSE ParseTime(commence_time)[1]
        ELSE "TBD"

\* format_matchup_card: the score line
ScoreRows(game) ==
    LET home_score == Get(game.home_score, "")
        away_score == Get(game.away_score, "")
    IN  IF Truthy(home_score) /\ Truthy(away_score)
        THEN <<Line("score", Row(Center(away_score \o "  -  " \o home_score, CardWidth - 2))),
               BlankRow>>
        ELSE <<>>

\* [b for b in broadcasts if b.get('type', {}).get('shortName') in ['', 'National']]
RECURSIVE NationalOf(_)
NationalOf(broadcasts) ==
    IF broadcasts = <<>> THEN <<>>
    ELSE LET b == Head(broadcasts)
             type == Get(b.type, [shortName |-> None])
         IN  (IF type.shortName \in {Some(""), Some("National")} THEN <<b>> ELSE <<>>)
             \o NationalOf(Tail(broadcasts))

\* the loop "for b in national[:2]" of format_matchup_card
RECURSIVE ChannelsOf(_)
ChannelsOf(national) ==
    IF national = <<>> THEN <<>>
    ELSE LET names == Get(Head(national).names, <<>>)
         IN  (IF names # <<>> THEN Take(names, 2) ELSE <<>>) \o ChannelsOf(Tail(national))

\* format_matchup_card: the TV line
TvRows(game) ==
    LET broadcasts == Get(game.broadcasts, <<>>)
        national == IF NationalOf(broadcasts) = <<>> THEN Take(broadcasts, 2)
                    ELSE NationalOf(broadcasts)
        channels == ChannelsOf(Take(national, 2))
        channel_str == JoinComma(Take(channels, 3))
    IN  IF broadcasts # <<>> /\ channels # <<>> /\ Len(channel_str) <= CardWidth - 8
        THEN <<Line("tv", Row(FormatCenter("TV: " \o channel_str, CardWidth - 2)))>>
        ELSE <<>>

\* the dict has no key
EmptyWeather == [temperature |-> None, condition |-> None, displayValue |-> None, wind |-> None]

\* format_matchup_card: the weather line
WeatherRows(game) ==
    LET weather == Get(game.weather, EmptyWeather)
        \* weather.get('temperature'): None and 0 are both false
        temp == Get(weather.temperature, 0)
        conditions == Get(weather.condition, Get(weather.displayValue, ""))
        wind == Get(weather.wind, "")
        weather_parts ==
            (IF temp # 0 THEN <<IntStr(temp) \o "'F">> ELSE <<>>)
            \o (IF Truthy(conditions) THEN <<conditions>> ELSE <<>>)
            \o (IF Truthy(wind) THEN <<wind>> ELSE <<>>)
        weather_str == JoinComma(weather_parts)
    IN  IF weather # EmptyWeather /\ weather_parts # <<>>
           /\ Len(weather_str) <= CardWidth - 8
        THEN <<Line("weather", Row(FormatCenter("Weather: " \o weather_str, CardWidth - 2)))>>
        ELSE <<>>

\* f"{point:+.1f}"; the model writes a point in tenths
PointStr(point) ==
    LET a == IF point < 0 THEN -point ELSE point
    IN  (IF point < 0 THEN "-" ELSE "+") \o NatStr(a \div 10) \o "." \o Digits[(a % 10) + 1]

\* format_matchup_card: one line of odds
OutcomeRow(outcome) ==
    LET name == Str(ShortenName(Get(outcome.name, <<>>), 28))
        \* price and point default to '' when the key is missing
        price_str == IF IsNone(outcome.price) THEN ""
                     ELSE IF outcome.price[1] > 0 THEN "+" \o IntStr(outcome.price[1])
                     ELSE IntStr(outcome.price[1])
        with_point == IF ~IsNone(outcome.point) /\ outcome.point[1] # 0
                      THEN price_str \o " (" \o PointStr(outcome.point[1]) \o ")"
                      ELSE price_str
    IN  Line("odds", "|  " \o Ljust(name, 52) \o Rjust(with_point, 8) \o "  |")

\* format_matchup_card: the lines of bookmaker number bm_idx (from 0) of total shown
BookmakerRows(bm, bm_idx, shown) ==
    LET bm_name == Get(bm.title, "Bookmaker")
        markets == Get(bm.markets, <<>>)
        market == markets[1]
        market_type == Get(market.key, "h2h")
        outcomes == Get(market.outcomes, <<>>)
        header == IF market_type = "h2h" THEN "Moneyline (" \o bm_name \o ")"
                  ELSE IF market_type = "spreads" THEN "Spread (" \o bm_name \o ")"
                  ELSE "Odds (" \o bm_name \o ")"
        two == Take(outcomes, 2)
    IN  IF markets = <<>> THEN <<>>
        ELSE IF outcomes = <<>> THEN <<>>
        ELSE (IF bm_idx = 0
              THEN <<BlankRow, Line("frame", Row(Repeat("-", CardWidth - 2)))>>
              ELSE <<>>)
             \o <<Line("odds", Row(Center(header, CardWidth - 2))), BlankRow>>
             \o [i \in 1..Len(two) |-> OutcomeRow(two[i])]
             \o (IF bm_idx < shown - 1 THEN <<BlankRow>> ELSE <<>>)

\* format_matchup_card: the loop over bookmakers[:3], from number bm_idx on
RECURSIVE OddsRowsFrom(_, _)
OddsRowsFrom(bookmakers, bm_idx) ==
    IF bm_idx >= Len(bookmakers) THEN <<>>
    ELSE BookmakerRows(bookmakers[bm_idx + 1], bm_idx, Len(bookmakers))
         \o OddsRowsFrom(bookmakers, bm_idx + 1)

OddsRows(game) == OddsRowsFrom(Take(Get(game.bookmakers, <<>>), 3), 0)

\* format_matchup_card: the lines of the returned str, or the exception raised
FormatMatchupCard(game) ==
    LET home_team == Get(game.home_team, <<"H", "o", "m", "e">>)
        away_team == Get(game.away_team, <<"A", "w", "a", "y">>)
    IN  IF away_team = Null \/ home_team = Null
        THEN [raised |-> TRUE, card |-> <<>>]
        ELSE [raised |-> FALSE,
              card |-> <<Line("frame", ""), RuleRow, BlankRow,
                         Line("frame", Row(Center("MATCHUP", CardWidth - 2))),
                         BlankRow, RuleRow, BlankRow,
                         Line("matchup",
                              Row(Center(Str(ShortenName(away_team, 24)) \o "  vs  "
                                         \o Str(ShortenName(home_team, 24)), CardWidth - 2))),
                         BlankRow>>
                       \o ScoreRows(game)
                       \o <<Line("time", Row(Center(TimeStr(game), CardWidth - 2)))>>
                       \o TvRows(game) \o WeatherRows(game) \o OddsRows(game)
                       \o <<BlankRow, RuleRow>>]

\* The game dicts format_matchup_card is applied to.
NameCeltics == <<"B", "o", "s", "t", "o", "n", " ", "C", "e", "l", "t", "i", "c", "s">>
NameLakers == <<"L", "o", "s", " ", "A", "n", "g", "e", "l", "e", "s", " ", "L", "a", "k", "e", "r", "s">>
NameLong == <<"M", "i", "n", "n", "e", "s", "o", "t", "a", " ", "T", "i", "m", "b", "e", "r", "w", "o", "l", "v", "e", "s", " ", "B", "a", "s", "k", "e", "t", "b", "a", "l", "l">>
NameOptions == {None, Some(NameCeltics)}
HomeOptions == {None, Some(NameLakers), Some(NameLong), Some(Null)}
TimeOptions == {None, Some(""), Some("2025-01-04T19:30:00Z"), Some("soon")}
ScoreOptions == {[home |-> None, away |-> None], [home |-> Some("102"), away |-> Some("99")],
                 [home |-> Some("102"), away |-> None]}

BroadcastNational ==
    [type |-> Some([shortName |-> Some("National")]), names |-> Some(<<"ESPN", "ABC", "ESPN+">>)]
BroadcastLocal == [type |-> None, names |-> Some(<<"NBC Sports Boston">>)]
BroadcastOptions ==
    {None, Some(<<>>), Some(<<BroadcastLocal, BroadcastNational>>), Some(<<BroadcastLocal>>),
     Some(<<[type |-> None, names |-> None]>>)}

WeatherOptions ==
    {None, Some(EmptyWeather),
     Some([EmptyWeather EXCEPT !.temperature = Some(72), !.displayValue = Some("Sunny")]),
     Some([EmptyWeather EXCEPT !.wind = Some("5 mph")])}

OutcomeCeltics == [name |-> Some(NameCeltics), price |-> Some(-150), point |-> None]
OutcomeLakers == [name |-> Some(NameLakers), price |-> Some(130), point |-> None]
SpreadCeltics == [name |-> Some(NameCeltics), price |-> Some(-110), point |-> Some(-35)]
SpreadLakers == [name |-> Some(NameLakers), price |-> None, point |-> Some(35)]
BookH2h ==
    [title |-> Some("DraftKings"),
     markets |-> Some(<<[key |-> Some("h2h"),
                         outcomes |-> Some(<<OutcomeCeltics, OutcomeLakers>>)]>>)]
BookSpreads ==
    [title |-> None,
     markets |-> Some(<<[key |-> Some("spreads"),
                         outcomes |-> Some(<<SpreadCeltics, SpreadLakers>>)]>>)]
BookNoMarkets == [title |-> Some("FanDuel"), markets |-> None]
BookmakerOptions ==
    {None, Some(<<>>), Some(<<BookH2h>>), Some(<<BookH2h, BookSpreads>>),
     Some(<<BookNoMarkets, BookSpreads>>)}

MatchupGames ==
    {[home_team |-> h, away_team |-> a, commence_time |-> t, home_score |-> s.home,
      away_score |-> s.away, broadcasts |-> b, weather |-> w, bookmakers |-> o] :
        h \in HomeOptions, a \in NameOptions, t \in TimeOptions, s \in ScoreOptions,
        b \in BroadcastOptions, w \in WeatherOptions, o \in BookmakerOptions}

InitCard ==
    /\ PureInit
    /\ fcase \in {[applied |-> FALSE, game |-> g, result |-> None] : g \in MatchupGames}

\* one call of format_matchup_card
FormatCard ==
    /\ ~fcase.applied
    /\ fcase' = [fcase EXCEPT !.applied = TRUE,
                              !.result = Some(FormatMatchupCard(fcase.game))]
    /\ PureFrame

NextCard == FormatCard

SpecCard == InitCard /\ [][NextCard]_vars

\* the lines of the card that belong to the part
RowsOf(card, part) == {i \in 1..Len(card) : card[i].part = part}

\* the card shows the text on its line of the part, centred between the borders
Shows(card, part, text) ==
    \E i \in RowsOf(card, part) : card[i].text = Row(Center(text, CardWidth - 2))

\* the team names are given or their keys are missing
NamesGivenOrMissing == fcase.game.home_team # Some(Null) /\ fcase.game.away_team # Some(Null)

\* C12: format_matchup_card returns a card without raising whichever of commence_time,
\* the scores, weather, broadcasts and bookmakers are missing; a missing commence_time
\* shows TBD, missing team names show Away and Home, and the score, TV, weather and
\* odds lines are left out when their data is missing.
C12_CardToleratesMissingFields ==
    (fcase.applied /\ NamesGivenOrMissing) =>
        LET game == fcase.game
            card == fcase.result[1].card
        IN  /\ ~fcase.result[1].raised
            /\ Len(card) >= 12
            /\ IsNone(game.commence_time) => Shows(card, "time", "TBD")
            /\ (IsNone(game.home_team) /\ IsNone(game.away_team)) =>
                   Shows(card, "matchup", "Away  vs  Home")
            /\ (IsNone(game.home_team) /\ game.away_team = Some(NameCeltics)) =>
                   Shows(card, "matchup", "Boston Celtics  vs  Home")
            /\ (IsNone(game.home_score) \/ IsNone(game.away_score)) =>
                   RowsOf(card, "score") = {}
            /\ IsNone(game.broadcasts) => RowsOf(card, "tv") = {}
            /\ IsNone(game.weather) => RowsOf(card, "weather") = {}
            /\ IsNone(game.bookmakers) => RowsOf(card, "odds") = {}

\* C12 witness: a card was returned for a game dict with only its odds: TBD, Away and
\* Home are shown and only the odds lines are there.
C12_Witness ==
    /\ fcase.applied
    /\ \A f \in {"home_team", "away_team", "commence_time", "home_score", "away_score",
                 "broadcasts", "weather"} : IsNone(fcase.game[f])
    /\ fcase.game.bookmakers = Some(<<BookH2h>>)
    /\ ~fcase.result[1].raised
    /\ Shows(fcase.result[1].card, "time", "TBD")
    /\ Shows(fcase.result[1].card, "matchup", "Away  vs  Home")
    /\ RowsOf(fcase.result[1].card, "odds") # {}

---------------------------------------------------------------------------
(* format_game_summary.  The payloads have no article, so the notes block  *)
(* between the top performers and the footer is not entered.               *)

\* the dicts the chained .get(key, {}) calls default to
NoCompetition == [status |-> None]
NoHeader == [competitions |-> None]
NoStatus == [type |-> None]
NoStatusType == [detail |-> None]
NoVenue == [fullName |-> None]
NoBroadcast == [broadcasters |-> None]
NoGameInfo == [venue |-> None, broadcast |-> None, attendance |-> None]
NoBoxscore == [teams |-> None]
NoTeamInfo == [displayName |-> None, record |-> None, abbreviation |-> None]
NoStatistic == [name |-> None, displayValue |-> None]
NoAthlete == [displayName |-> None]

\* game_data.get('header', {}).get('competitions', [{}])
HeaderCompetitions(game_data) ==
    Get(Get(game_data.header, NoHeader).competitions, <<NoCompetition>>)

\* status.get('type', {}).get('detail', 'Game')
StatusText(game_data) ==
    LET status == Get(HeaderCompetitions(game_data)[1].status, NoStatus)
    IN  Get(Get(status.type, NoStatusType).detail, "Game")

\* game_data.get('boxscore', {}).get('teams', [])
BoxscoreTeams(game_data) == Get(Get(game_data.boxscore, NoBoxscore).teams, <<>>)

\* team.get('statistics', [{}])
StatisticsOrOne(team) == Get(team.statistics, <<NoStatistic>>)

\* team.get('statistics', [{}])[-1].get('displayValue', '0')
FinalScore(team) ==
    LET statistics == StatisticsOrOne(team)
    IN  Get(statistics[Len(statistics)].displayValue, "0")

\* format_game_summary raises IndexError: [0] or [-1] of an empty list
SummaryRaises(game_data) ==
    \/ HeaderCompetitions(game_data) = <<>>
    \/ \E i \in 1..Len(BoxscoreTeams(game_data)) :
          StatisticsOrOne(BoxscoreTeams(game_data)[i]) = <<>>
    \/ LET broadcasters == Get(Get(Get(game_data.gameInfo, NoGameInfo).broadcast,
                                   NoBroadcast).broadcasters, <<>>)
       IN  \E i \in 1..Len(Take(broadcasters, 2)) :
              Get(broadcasters[i].names, <<"">>) = <<>>

\* "Teams and scores": one line per team when there are two or more
SummaryScoreRow(team) ==
    LET info == Get(team.team, NoTeamInfo)
        team_name == Str(Upper(Get(info.displayName, <<>>)))
        record == Get(info.record, "")
    IN  Line("score", Row(Ljust("   " \o team_name \o " (" \o record \o ")", 42)
                          \o Rjust(FinalScore(team) \o " ", CardWidth - 44)))

\* the period header
RECURSIVE PeriodHeader(_, _)
PeriodHeader(i, period_count) ==
    IF i >= period_count THEN "FINAL"
    ELSE (IF i < 4 THEN "Q" \o NatStr(i + 1) \o "   " ELSE "OT   ")
         \o PeriodHeader(i + 1, period_count)

\* the scores of the periods of a team, each right-aligned in 5
RECURSIVE PeriodScores(_)
PeriodScores(linescores) ==
    IF linescores = <<>> THEN ""
    ELSE Rjust(Get(Head(linescores).displayValue, "0"), 5) \o PeriodScores(Tail(linescores))

\* "Team scores by period": the line of one team
SummaryPeriodRow(team) ==
    LET abbr == Get(Get(team.team, NoTeamInfo).abbreviation, "TM")
    IN  Line("periods",
             Row(Ljust("   " \o Ljust(abbr, 7) \o PeriodScores(Get(team.linescores, <<>>))
                       \o Rjust(FinalScore(team), 7), CardWidth - 2)))

StatKeys == <<"fieldGoalPct", "threePointPct", "freeThrowPct", "rebounds", "assists">>
StatLabels == <<"FG%", "3P%", "FT%", "REB", "AST">>

\* stats_data[idx].get(stat_key, '-'): the last statistic of that name wins
RECURSIVE StatValue(_, _, _)
StatValue(statistics, stat_key, found) ==
    IF statistics = <<>> THEN found
    ELSE StatValue(Tail(statistics), stat_key,
                   IF Get(Head(statistics).name, "") = stat_key
                   THEN Get(Head(statistics).displayValue, "-")
                   ELSE found)

\* the statistics of team number idx (from 1) of teams[:2], [] when there is none
StatsOfTeam(teams, idx) ==
    IF idx <= Len(teams) THEN Get(teams[idx].statistics, <<>>) ELSE <<>>

\* "Key stats": the line of one statistic
SummaryStatRow(teams, k) ==
    Line("stats",
         Row(Ljust("   " \o Ljust(StatLabels[k], 8) \o " "
                   \o FormatCenter(StatValue(StatsOfTeam(teams, 1), StatKeys[k], "-"), 21)
                   \o " "
                   \o FormatCenter(StatValue(StatsOfTeam(teams, 2), StatKeys[k], "-"), 21),
                   CardWidth - 2)))

\* "Top performers": the line of one player
SummaryPlayerRow(player) ==
    LET name == Get(Get(player.athlete, NoAthlete).displayName, "")
        stats == Get(player.stats, <<>>)
    IN  Line("players", Row(Ljust("   " \o Ljust(name, 20) \o " "
                                  \o JoinComma(Take(stats, 4)), CardWidth - 2)))

\* "Top performers": the lines of one team
SummaryPerformers(team) ==
    LET team_name == Str(Upper(Get(Get(team.team, NoTeamInfo).displayName, <<>>)))
        players == Take(Get(team.players, <<>>), 3)
    IN  <<Line("players", "|   " \o Ljust(team_name, CardWidth - 6) \o " |")>>
        \o [i \in 1..Len(players) |-> SummaryPlayerRow(players[i])]
        \o <<BlankRow>>

\* the lines of f over the teams, one after the other
RECURSIVE PerformersOf(_)
PerformersOf(teams) ==
    IF teams = <<>> THEN <<>> ELSE SummaryPerformers(Head(teams)) \o PerformersOf(Tail(teams))

\* the footer: TV and attendance
SummaryFooter(game_data) ==
    LET gameInfo == Get(game_data.gameInfo, NoGameInfo)
        broadcasts == Take(Get(Get(gameInfo.broadcast, NoBroadcast).broadcasters, <<>>), 2)
        tv == JoinComma([i \in 1..Len(broadcasts) |-> Get(broadcasts[i].names, <<"">>)[1]])
        attendance == Get(gameInfo.attendance, "")
    IN  (IF broadcasts # <<>>
         THEN <<Line("tv", "|   TV: " \o Ljust(tv, CardWidth - 10) \o " |")>> ELSE <<>>)
        \o (IF Truthy(attendance)
            THEN <<Line("attendance",
                        "|   Attendance: " \o Ljust(attendance, CardWidth - 18) \o " |")>>
            ELSE <<>>)

\* format_game_summary: the lines of the returned str, or the exception raised
FormatGameSummary(game_data) ==
    IF SummaryRaises(game_data) THEN [raised |-> TRUE, card |-> <<>>]
    ELSE
    LET teams == BoxscoreTeams(game_data)
        venue == Get(Get(Get(game_data.gameInfo, NoGameInfo).venue, NoVenue).fullName, "")
        linescores == IF teams # <<>> THEN Get(teams[1].linescores, <<>>) ELSE <<>>
        abbr1 == IF Len(teams) > 0
                 THEN Get(Get(teams[1].team, NoTeamInfo).abbreviation, "TM1") ELSE "TM1"
        abbr2 == IF Len(teams) > 1
                 THEN Get(Get(teams[2].team, NoTeamInfo).abbreviation, "TM2") ELSE "TM2"
    IN  [raised |-> FALSE,
         card |->
           <<RuleRow, Line("status", Row(Center(StatusText(game_data), CardWidth - 2)))>>
           \o (IF Truthy(venue)
               THEN <<Line("venue", Row(Center("@ " \o venue, CardWidth - 2)))>> ELSE <<>>)
           \o <<RuleRow, BlankRow>>
           \o (IF Len(teams) >= 2
               THEN [i \in 1..Len(teams) |-> SummaryScoreRow(teams[i])] ELSE <<>>)
           \o <<BlankRow, RuleRow,
                Line("frame", Row(Center("QUARTER-BY-QUARTER", CardWidth - 2))), BlankRow,
                Line("periods", Row(Ljust("            " \o PeriodHeader(0, Len(linescores)),
                                          CardWidth - 2)))>>
           \o [i \in 1..Len(teams) |-> SummaryPeriodRow(teams[i])]
           \o <<BlankRow, RuleRow,
                Line("frame", Row(Center("TEAM STATS", CardWidth - 2))), BlankRow,
                Line("stats", Row(Ljust("             " \o FormatCenter(abbr1, 21) \o " "
                                        \o FormatCenter(abbr2, 21), CardWidth - 2)))>>
           \o [k \in 1..Len(StatKeys) |-> SummaryStatRow(Take(teams, 2), k)]
           \o <<BlankRow, RuleRow,
                Line("frame", Row(Center("TOP PERFORMERS", CardWidth - 2))), BlankRow>>
           \o PerformersOf(teams)
           \o <<RuleRow, Line("frame", Row(Center("GAME NOTES", CardWidth - 2))), BlankRow>>
           \o SummaryFooter(game_data)
           \o <<RuleRow>>]

---------------------------------------------------------------------------
(* format_detailed_scoreboard.  The bullet between the footer items is     *)
(* written "*".                                                            *)

\* width of a game of format_detailed_scoreboard
DetailWidth == 90

NoCompetitorTeam == [displayName |-> None]

\* period_labels.get(sport, ['Q1', 'Q2', 'Q3', 'Q4'])
PeriodLabels(sport) ==
    IF sport \in {"basketball", "football"} THEN <<"Q1", "Q2", "Q3", "Q4", "OT">>
    ELSE IF sport = "hockey" THEN <<"P1", "P2", "P3", "OT", "SO">>
    ELSE <<"Q1", "Q2", "Q3", "Q4">>

\* next((c for c in competitors if c.get('homeAway') == side), default)
RECURSIVE FirstSide(_, _, _)
FirstSide(competitors, side, default) ==
    IF competitors = <<>> THEN default
    ELSE IF Head(competitors).homeAway = Some(side) THEN Head(competitors)
    ELSE FirstSide(Tail(competitors), side, default)

\* the header cells: the labels of the periods either team has played
RECURSIVE LabelCells(_, _, _)
LabelCells(labels, i, periods) ==
    IF i >= Len(labels) THEN ""
    ELSE (IF i < periods THEN FormatCenter(labels[i + 1], 6) \o " | " ELSE "")
         \o LabelCells(labels, i + 1, periods)

\* the cells of a team's period scores; a linescore without 'value' prints as the dict
RECURSIVE ScoreCells(_)
ScoreCells(line) ==
    IF line = <<>> THEN ""
    ELSE FormatCenter(Get(Head(line).value, "{}"), 6) \o " | " \o ScoreCells(Tail(line))

\* the row of one team
DetailTeamRow(team, line, score) ==
    Line("team", "| " \o Ljust(Str(Take(team, 22)), 22) \o " | " \o ScoreCells(line)
                 \o FormatCenter(score, 6) \o " |")

\* the weather item of the footer, if any
DetailWeather(weather) ==
    LET temp == Get(weather.temperature, 0)
        cond == Get(weather.displayValue, Get(weather.condition, ""))
    IN  IF weather = EmptyWeather THEN <<>>
        ELSE IF temp # 0 /\ Truthy(cond)
             THEN <<"Weather: " \o IntStr(temp) \o "'F, " \o cond>>
        ELSE IF temp # 0 THEN <<"Weather: " \o IntStr(temp) \o "'F">>
        ELSE IF Truthy(cond) THEN <<"Weather: " \o cond>>
        ELSE <<>>

\* ' * '.join(footer_items)
RECURSIVE JoinBullet(_)
JoinBullet(strs) ==
    IF Len(strs) = 1 THEN strs[1] ELSE strs[1] \o " * " \o JoinBullet(Tail(strs))

\* the lines of one game with a competition of two or more competitors
DetailGame(game, comp, labels) ==
    LET competitors == Get(comp.competitors, <<>>)
        away_comp == FirstSide(competitors, "away", competitors[2])
        home_comp == FirstSide(competitors, "home", competitors[1])
        away_team == Get(Get(away_comp.team, NoCompetitorTeam).displayName, <<"A", "w", "a", "y">>)
        home_team == Get(Get(home_comp.team, NoCompetitorTeam).displayName, <<"H", "o", "m", "e">>)
        away_line == Get(away_comp.linescores, <<>>)
        home_line == Get(home_comp.linescores, <<>>)
        periods == IF Len(away_line) > Len(home_line) THEN Len(away_line) ELSE Len(home_line)
        status == Get(Get(Get(comp.status, NoStatus).type, NoStatusType).detail, "TBD")
        rule == Line("frame", "+" \o Repeat("-", DetailWidth - 2) \o "+")
    IN  <<rule,
          Line("name", Row(Center(Get(game.name, "Game"), DetailWidth - 2))),
          rule,
          Line("header", "| " \o Ljust("TEAM", 22) \o " | "
                         \o LabelCells(labels, 0, periods)
                         \o FormatCenter("TOTAL", 6) \o " |"),
          rule,
          DetailTeamRow(away_team, away_line, Get(away_comp.score, "0")),
          DetailTeamRow(home_team, home_line, Get(home_comp.score, "0")),
          rule,
          Line("footer",
               Row(Center(JoinBullet(<<status>> \o DetailWeather(Get(comp.weather, EmptyWeather))),
                          DetailWidth - 2))),
          rule,
          Line("frame", "")>>

\* the loop over games[:10]: the lines of the games from the first on
RECURSIVE DetailRows(_, _)
DetailRows(games, labels) ==
    IF games = <<>> THEN <<>>
    ELSE LET game == Head(games)
             comp == game.competitions[1][1]
         IN  (IF IsNone(game.competitions) THEN <<>>
              ELSE IF Len(Get(comp.competitors, <<>>)) < 2 THEN <<>>
              ELSE DetailGame(game, comp, labels))
             \o DetailRows(Tail(games), labels)

\* format_detailed_scoreboard raises IndexError: game['competitions'][0] of an empty list
DetailRaises(games) ==
    \E i \in 1..Len(Take(games, 10)) : games[i].competitions = Some(<<>>)

\* format_detailed_scoreboard: the lines of the returned str, or the exception raised
FormatDetailedScoreboard(games, sport) ==
    IF games = <<>> THEN [raised |-> FALSE, card |-> <<Line("message", "No games found.")>>]
    ELSE IF DetailRaises(games) THEN [raised |-> TRUE, card |-> <<>>]
    ELSE [raised |-> FALSE,
          card |-> <<Line("frame", "")>> \o DetailRows(Take(games, 10), PeriodLabels(sport))]

\* The payloads the two formatters are applied to: every optional nested field is
\* missing, empty or given.
InfoCeltics ==
    [displayName |-> Some(NameCeltics), record |-> Some("10-2"), abbreviation |-> Some("BOS")]
StatisticsOptions ==
    {None, Some(<<>>),
     Some(<<[name |-> Some("rebounds"), displayValue |-> Some("44")],
            [name |-> Some("points"), displayValue |-> Some("102")]>>)}
LinescoreOptions == {None, Some(<<>>), Some(<<[displayValue |-> Some("27")], [displayValue |-> None]>>)}
PlayerOptions ==
    {None, Some(<<>>),
     Some(<<[athlete |-> Some([displayName |-> Some("J. Tatum")]),
             stats |-> Some(<<"30 PTS", "8 REB">>)],
            [athlete |-> None, stats |-> None]>>)}
SummaryTeams ==
    {[team |-> i, statistics |-> s, linescores |-> l, players |-> p] :
        i \in {None, Some(InfoCeltics)}, s \in StatisticsOptions, l \in LinescoreOptions,
        p \in PlayerOptions}
BareTeam == [team |-> None, statistics |-> None, linescores |-> None, players |-> None]
HeaderOptions ==
    {None, Some([competitions |-> None]), Some([competitions |-> Some(<<>>)]),
     Some([competitions |-> Some(<<[status |-> None]>>)]),
     Some([competitions |->
              Some(<<[status |-> Some([type |-> Some([detail |-> Some("Final")])])]>>)])}
GameInfoOptions ==
    {None, Some(NoGameInfo),
     Some([venue |-> Some([fullName |-> Some("TD Garden")]),
           broadcast |-> Some([broadcasters |-> Some(<<[names |-> Some(<<"ESPN">>)]>>)]),
           attendance |-> Some("19156")])}
BoxscoreOptions ==
    {None, Some([teams |-> None]), Some([teams |-> Some(<<>>)])}
    \cup {Some([teams |-> Some(<<t>>)]) : t \in SummaryTeams}
    \cup {Some([teams |-> Some(<<t, BareTeam>>)]) : t \in SummaryTeams}
SummaryPayloads ==
    {[header |-> h, gameInfo |-> g, boxscore |-> b] :
        h \in HeaderOptions, g \in GameInfoOptions, b \in BoxscoreOptions}

CompetitorHome ==
    [homeAway |-> Some("home"), team |-> Some([displayName |-> Some(NameLakers)]),
     score |-> Some("102"), linescores |-> Some(<<[value |-> Some("27.0")], [value |-> None]>>)]
BareCompetitor == [homeAway |-> None, team |-> None, score |-> None, linescores |-> None]
CompetitorOptions ==
    {None, Some(<<>>), Some(<<BareCompetitor>>), Some(<<BareCompetitor, BareCompetitor>>),
     Some(<<[BareCompetitor EXCEPT !.linescores = Some(<<>>)], CompetitorHome>>)}
DetailCompetitions ==
    {None, Some(<<>>)}
    \cup {Some(<<[competitors |-> c, status |-> s, weather |-> w]>>) :
             c \in CompetitorOptions,
             s \in {None, Some([type |-> Some([detail |-> Some("Final")])])},
             w \in {None, Some(EmptyWeather),
                    Some([EmptyWeather EXCEPT !.temperature = Some(72)])}}
DetailGames ==
    {[name |-> n, competitions |-> c] :
        n \in {None, Some("Lakers at Celtics")}, c \in DetailCompetitions}
DetailPayloads ==
    {<<>>} \cup {<<g>> : g \in DetailGames}
    \cup {<<g, [name |-> None, competitions |-> None]>> : g \in DetailGames}

InitFormat ==
    /\ PureInit
    /\ fcase \in {[applied |-> FALSE, function |-> "format_game_summary", payload |-> p,
                   sport |-> "basketball", result |-> None] : p \in SummaryPayloads}
                 \cup {[applied |-> FALSE, function |-> "format_detailed_scoreboard",
                        payload |-> p, sport |-> s, result |-> None] :
                          p \in DetailPayloads, s \in {"basketball", "hockey", "soccer"}}

\* one call of format_game_summary
FormatSummary ==
    /\ ~fcase.applied
    /\ fcase.function = "format_game_summary"
    /\ fcase' = [fcase EXCEPT !.applied = TRUE,
                              !.result = Some(FormatGameSummary(fcase.payload))]
    /\ PureFrame

\* one call of format_detailed_scoreboard
FormatDetailed ==
    /\ ~fcase.applied
    /\ fcase.function = "format_detailed_scoreboard"
    /\ fcase' = [fcase EXCEPT !.applied = TRUE,
                              !.result = Some(FormatDetailedScoreboard(fcase.payload,
                                                                       fcase.sport))]
    /\ PureFrame

NextFormat == FormatSummary \/ FormatDetailed

SpecFormat == InitFormat /\ [][NextFormat]_vars

\* C13 (as claimed): format_game_summary and format_detailed_scoreboard return a string
\* without raising for every payload whose optional nested fields are missing or empty.
C13_FormattersTolerateMissingFields ==
    fcase.applied => (~fcase.result[1].raised /\ fcase.result[1].card # <<>>)

---------------------------------------------------------------------------
(* dashboard_mcp_server.py.  DASHBOARD_API_KEY is set, or the module exits *)
(* on import.  inv is the tool invocation and lastCall its make_request;   *)
(* the handlers of the sports server are not used.                         *)

\* what the dashboard API answers: the request fails in transport, or a status
\* comes with a body that is JSON or not; an error body is the API's own object
DashboardBodies(status) ==
    IF status = 200
    THEN {[json |-> TRUE, success |-> "true", error |-> None, payload |-> "data"],
          [json |-> TRUE, success |-> "absent", error |-> None, payload |-> "data"]}
    ELSE {[json |-> TRUE, success |-> "absent", error |-> Some("Unauthorized"),
           payload |-> "none"],
          [json |-> TRUE, success |-> "false", error |-> Some("Invalid API key"),
           payload |-> "none"],
          [json |-> FALSE, success |-> "absent", error |-> None, payload |-> "none"]}

DashboardStatuses == {200, 401, 500}

DashboardResponses ==
    {[kind |-> "exception", status |-> 0, body |-> None]}
    \cup UNION {{[kind |-> "http", status |-> s, body |-> Some(b)] :
                     b \in DashboardBodies(s)} : s \in DashboardStatuses}

\* make_request once the API answered: `return await response.json()` for GET, POST
\* and DELETE, whatever the status; every exception propagates
DashboardMakeRequest(method, resp) ==
    IF method \notin {"GET", "POST", "DELETE"} THEN [raised |-> TRUE, value |-> None]
    ELSE IF resp.kind = "exception" THEN [raised |-> TRUE, value |-> None]
    ELSE IF ~resp.body[1].json THEN [raised |-> TRUE, value |-> None]
    ELSE [raised |-> FALSE,
          value |-> Some([success |-> resp.body[1].success, error |-> resp.body[1].error,
                          payload |-> resp.body[1].payload])]

\* no dashboard tool is running
DashboardIdle ==
    [tool |-> "none", pc |-> "done", method |-> "", endpoint |-> "", params |-> {},
     result |-> None, raised |-> FALSE]

InitDashboard ==
    /\ HandlersUnused
    /\ inv = DashboardIdle
    /\ lastCall = IdleCall
    /\ fcase = [applied |-> FALSE]

\* a tool up to the await of make_request: the request it sends
DashboardCall(tool, method, endpoint, params) ==
    /\ inv.pc = "done"
    /\ inv' = [tool |-> tool, pc |-> "request", method |-> method, endpoint |-> endpoint,
               params |-> params, result |-> None, raised |-> FALSE]
    /\ lastCall' = [vendor |-> "dashboard", state |-> "pending", gets |-> 1,
                    resp |-> None, ret |-> None]
    /\ UNCHANGED <<odds_configured, api_keys, current_key_index, session, espn_session,
                   bookmakers_filter_arg, bookmakers_filter, bookmakers_limit, keyLog,
                   fcase>>

create_bet(bet_type, notes) ==
    DashboardCall("create_bet", "POST", "/ai/bets",
                  {<<"betType", bet_type>>, <<"notes", notes>>, <<"source", "mcp">>})

get_active_games(sport, date) ==
    DashboardCall("get_active_games", "GET", "/games",
                  (IF sport # "" THEN {<<"sport", sport>>} ELSE {})
                  \cup (IF date # "" THEN {<<"date", date>>} ELSE {}))

get_my_bets(status) ==
    DashboardCall("get_my_bets", "GET", "/bets",
                  IF status # "all" THEN {<<"status", status>>} ELSE {})

get_bet_details(bet_id) ==
    DashboardCall("get_bet_details", "GET", "/bets/" \o bet_id, {})

get_game_odds(game_id) ==
    DashboardCall("get_game_odds", "GET", "/games/" \o game_id \o "/odds", {})

search_teams(query) ==
    DashboardCall("search_teams", "GET", "/teams/search", {<<"q", query>>})

get_dashboard_stats == DashboardCall("get_dashboard_stats", "GET", "/bets/stats", {})

\* the API answers and the tool returns the response, or the exception leaves the tool
DashboardResponse(resp) ==
    /\ inv.pc = "request"
    /\ LET out == DashboardMakeRequest(inv.method, resp)
       IN  /\ inv' = [inv EXCEPT !.pc = "done", !.result = out.value,
                                 !.raised = out.raised]
           /\ lastCall' = [lastCall EXCEPT !.state = IF out.raised THEN "raised"
                                                     ELSE "returned",
                                           !.resp = Some(resp), !.ret = out.value]
    /\ UNCHANGED <<odds_configured, api_keys, current_key_index, session, espn_session,
                   bookmakers_filter_arg, bookmakers_filter, bookmakers_limit, keyLog,
                   fcase>>

NextDashboard ==
    \/ \E bet_type \in {"single", "parlay"}, notes \in {"", "home"} :
          create_bet(bet_type, notes)
    \/ \E sport \in {"", SportNBA}, date \in {"", "2025-01-04"} : get_active_games(sport, date)
    \/ \E status \in {"all", "pending", "won"} : get_my_bets(status)
    \/ \E bet_id \in {"b1", "b2"} : get_bet_details(bet_id)
    \/ \E game_id \in {"g1", "g2"} : get_game_odds(game_id)
    \/ \E query \in {"Lakers", "LAL"} : search_teams(query)
    \/ get_dashboard_stats
    \/ \E resp \in DashboardResponses : DashboardResponse(resp)

SpecDashboard == InitDashboard /\ [][NextDashboard]_vars

\* C14 (as claimed): when the HTTP call of a dashboard tool fails with a transport
\* exception or a non-2xx status, the tool returns a result object with a false success
\* flag and an error message and lets no exception propagate.
C14_DashboardErrorsReturned ==
    (inv.pc = "done" /\ lastCall.vendor = "dashboard" /\ lastCall.state # "pending"
       /\ (lastCall.resp[1].kind = "exception" \/ ~Is2xx(lastCall.resp[1].status))) =>
        /\ ~inv.raised
        /\ inv.result[1].success = "false"
        /\ ~IsNone(inv.result[1].error)

---------------------------------------------------------------------------
(* OddsAPIHandler.get_scores: the request it sends. *)

\* a get_scores whose daysFrom is the argument
GetScoresRequestUncapped(sport, days_from) ==
    [endpoint |-> "/v4/sports/" \o sport \o "/scores", params |-> [daysFrom |-> days_from]]

\* get_scores up to the await: the endpoint and the params of its _make_request
GetScoresRequest(sport, days_from) ==
    [endpoint |-> "/v4/sports/" \o sport \o "/scores",
     params |-> [daysFrom |-> Min(days_from, 3)]]

InitScores ==
    /\ PureInit
    /\ fcase \in {[applied |-> FALSE, sport |-> s, days_from |-> d, request |-> None] :
                     s \in {SportNBA, SportMLB}, d \in (0 - MaxDays)..MaxDays}

\* one call of get_scores, up to its request
GetScores ==
    /\ ~fcase.applied
    /\ fcase' = [fcase EXCEPT !.applied = TRUE,
                              !.request = Some(GetScoresRequest(fcase.sport,
                                                                fcase.days_from))]
    /\ PureFrame

NextScores == GetScores

SpecScores == InitScores /\ [][NextScores]_vars

\* C15: for every integer days_from, the daysFrom parameter get_scores sends is at most
\* 3 and equals days_from whenever days_from <= 3.
C15_DaysFromCapped ==
    fcase.applied =>
        LET daysFrom == fcase.request[1].params.daysFrom
        IN  /\ daysFrom <= 3
            /\ fcase.days_from <= 3 => daysFrom = fcase.days_from
            /\ fcase.days_from > 3 => daysFrom = 3

\* C15 witness: get_scores was called with days_from above 3 and sent daysFrom = 3.
C15_Witness ==
    /\ fcase.applied
    /\ fcase.days_from > 3
    /\ fcase.request[1].params.daysFrom = 3
    /\ fcase.request[1].endpoint = "/v4/sports/basketball_nba/scores"

---------------------------------------------------------------------------
(* get_espn_scoreboard of sports_mcp_server.py: the limit it passes on and *)
(* the games it returns.                                                   *)

\* the cap of get_espn_scoreboard
ScoreboardCap == 25

NoEventStatus == [type |-> None]
NoEventStatusType == [description |-> None]

\* the streamlined game of one event
StreamlinedGame(event) ==
    LET comp == Get(event.competitions, <<[status |-> None]>>)[1]
    IN  [id |-> event.id,
         status |-> Get(Get(Get(comp.status, NoEventStatus).type,
                            NoEventStatusType).description, "Scheduled")]

\* the loop over events[:limit]: events without competitions are skipped
RECURSIVE StreamlinedGames(_)
StreamlinedGames(events) ==
    IF events = <<>> THEN <<>>
    ELSE (IF Get(Head(events).competitions, <<[status |-> None]>>) = <<>> THEN <<>>
          ELSE <<StreamlinedGame(Head(events))>>)
         \o StreamlinedGames(Tail(events))

\* get_espn_scoreboard up to the await: the limit it asks the handler for
ScoreboardLimit(limit) == Min(limit, ScoreboardCap)

\* get_espn_scoreboard after the await, on the handler's result
ScoreboardReturn(limit, result) ==
    IF result.success # "true" THEN result
    ELSE LET streamlined_games ==
                 StreamlinedGames(Take(result.data[1], ScoreboardLimit(limit)))
         IN  [success |-> "true", error |-> None, games |-> streamlined_games,
              total_games |-> Len(streamlined_games)]

\* the events of a vendor answer: n events, number skip of them (0: none) with
\* an empty competitions list
VendorEvents(n, skip) ==
    [i \in 1..n |-> [id |-> i,
                     competitions |-> IF i = skip THEN Some(<<>>)
                                      ELSE IF i % 2 = 0 THEN None
                                      ELSE Some(<<[status |-> None]>>)]]

ScoreboardCases ==
    {c \in [limit : (0 - 2)..MaxEvents, n : 0..MaxEvents, skip : 0..MaxEvents,
            ok : BOOLEAN] :
        /\ c.skip <= c.n
        /\ ~c.ok => (c.n = 0 /\ c.skip = 0)}

InitScoreboard ==
    /\ PureInit
    /\ \E c \in ScoreboardCases :
          fcase = [applied |-> FALSE, limit |-> c.limit,
                   vendor |-> IF c.ok
                              THEN [success |-> "true", error |-> None,
                                    data |-> Some(VendorEvents(c.n, c.skip))]
                              ELSE [success |-> "false",
                                    error |-> Some(StatusError(401)), data |-> None],
                   asked |-> None, result |-> None]

\* one call of get_espn_scoreboard
EspnScoreboard ==
    /\ ~fcase.applied
    /\ fcase' = [fcase EXCEPT !.applied = TRUE,
                              !.asked = Some(ScoreboardLimit(fcase.limit)),
                              !.result = Some(ScoreboardReturn(fcase.limit, fcase.vendor))]
    /\ PureFrame

NextScoreboard == EspnScoreboard

SpecScoreboard == InitScoreboard /\ [][NextScoreboard]_vars

\* C16 (as claimed): for every limit, get_espn_scoreboard asks the vendor for at most 25
\* games and, on success, returns a games list no longer than min(limit, 25) whose
\* length is the reported total_games.  A limit below 0 is read as allowing no game.
C16_ScoreboardLimited ==
    fcase.applied =>
        /\ fcase.asked[1] <= ScoreboardCap
        /\ fcase.result[1].success = "true" =>
              /\ Len(fcase.result[1].games)
                    <= (IF fcase.limit < 0 THEN 0 ELSE Min(fcase.limit, ScoreboardCap))
              /\ Len(fcase.result[1].games) = fcase.result[1].total_games

---------------------------------------------------------------------------
(* SpecEventOdds: get_event_odds as a function of the handler's            *)
(* configuration and of the vendor's answer, a JSON object for one event.  *)

FilterEventPayloads == {[shape |-> "dict", items |-> <<g>>] : g \in FilterGames}

\* get_event_odds on one vendor answer: what _make_request returns, then the filter
FilterGetEventOdds(resp) ==
    /\ ~fcase.applied
    /\ fcase' = [applied |-> TRUE,
                 resp |-> resp,
                 result |-> GetEventOddsReturn(bookmakers_filter, bookmakers_limit,
                                               MakeRequestReturn(resp))]
    /\ UNCHANGED <<odds_configured, api_keys, current_key_index, session, espn_session,
                   bookmakers_filter_arg, bookmakers_filter, bookmakers_limit, keyLog, inv,
                   lastCall>>

NextEventOdds == \E resp \in Responses(FilterEventPayloads) : FilterGetEventOdds(resp)

SpecEventOdds == InitFilterSpec /\ [][NextEventOdds]_vars

\* C17 (as claimed): a successful get_event_odds returns the event with its bookmakers
\* restricted to the allow-list and capped, as get_odds does for each game of a list.
C17_EventOddsFiltered ==
    (fcase.applied /\ fcase.result.success = "true") =>
        fcase.result.data[1].items[1]
          = FilterGame(bookmakers_filter, bookmakers_limit, fcase.resp.data[1].items[1])

---------------------------------------------------------------------------
(* SpecHandlers: the two handlers under concurrent use.  Tasks of one      *)
(* event loop call _make_request and close() on the handlers; a task runs  *)
(* until it suspends at an await that waits for the network, so the code   *)
(* between two such awaits is one step.  `await self._get_session()` runs  *)
(* a coroutine without an await of its own and does not suspend.           *)
(* fcase holds, for each handler, every session it created (closed or      *)
(* not, in creation order) and the one self.session refers to (0: None),   *)
(* and for each task what it is doing and what its last operation saw.     *)

\* tasks that use the handlers at the same time
MaxTasks == 2
\* calls of close() that close a session, over both handlers
MaxCloses == 2

Tasks == 1..MaxTasks
Handlers == {"odds", "espn"}

\* a handler after __init__: self.session = None, no session created
NewHandler == [closed |-> <<>>, held |-> 0]

\* self.session of the handler state hs: None, an open session or a closed one
StatusOf(hs) ==
    IF hs.held = 0 THEN "none"
    ELSE IF hs.closed[hs.held] THEN "closed" ELSE "open"

\* a task that has not called anything yet
IdleTask ==
    [pc |-> "idle", h |-> "none", op |-> "none", sess |-> 0, seq |-> 0,
     before |-> "none", heldBefore |-> 0, made |-> FALSE, changed |-> FALSE,
     outcome |-> "none"]

\* the values the code of one step reads and writes
HandlersWorld ==
    [idx |-> current_key_index, log |-> keyLog, hs |-> fcase.hs, tasks |-> fcase.tasks,
     closes |-> fcase.closes, ecalls |-> fcase.ecalls]

\* a _get_session that creates a session on every call
GetSessionAlways(hs, sessOk) ==
    IF sessOk
    THEN [hs |-> [closed |-> Append(hs.closed, FALSE), held |-> Len(hs.closed) + 1],
          raised |-> FALSE]
    ELSE [hs |-> hs, raised |-> TRUE]

\* _get_session on the handler state hs: the handler afterwards (held is the session
\* returned) or the exception of aiohttp.ClientSession() (sessOk: it does not raise)
GetSession(hs, sessOk) ==
    IF NeedsSession(StatusOf(hs))
    THEN IF sessOk
         THEN [hs |-> [closed |-> Append(hs.closed, FALSE), held |-> Len(hs.closed) + 1],
               raised |-> FALSE]
         ELSE [hs |-> hs, raised |-> TRUE]
    ELSE [hs |-> hs, raised |-> FALSE]

\* _make_request of handler h in task t, up to its first suspension: the odds handler
\* takes its key, the session is obtained, the GET is sent
StartRequest(w, t, h, sessOk) ==
    LET nk == GetNextApiKey(w)
        gs == GetSession(w.hs[h], sessOk)
        w1 == IF h = "odds"
              THEN [w EXCEPT !.idx = nk.idx,
                             !.log = Append(@, [key |-> nk.key, sent |-> ~gs.raised,
                                                failed |-> IF gs.raised THEN "true"
                                                           ELSE "pending"])]
              ELSE [w EXCEPT !.ecalls = @ + 1]
        task == [IdleTask EXCEPT !.h = h, !.op = "request",
                                 !.seq = IF h = "odds" THEN Len(w1.log) ELSE 0,
                                 !.before = StatusOf(w.hs[h]),
                                 !.heldBefore = w.hs[h].held,
                                 !.changed = (gs.hs # w.hs[h])]
    IN  IF gs.raised
        THEN [w1 EXCEPT !.tasks[t] = [task EXCEPT !.outcome = "raised"]]
        ELSE [w1 EXCEPT !.hs[h] = gs.hs,
                        !.tasks[t] = [task EXCEPT !.pc = "pending",
                                                  !.sess = gs.hs.held,
                                                  !.made = (gs.hs.held # w.hs[h].held)]]

\* a _make_request that gives its turn back when the request failed
RequestReturnRollback(w, t, ret) ==
    LET task == w.tasks[t]
        w1 == [w EXCEPT !.tasks[t].pc = "idle", !.tasks[t].outcome = ret.success]
    IN  IF task.h = "odds"
        THEN [w1 EXCEPT !.log[task.seq].failed = IF ret.success = "false" THEN "true"
                                                 ELSE "false",
                        !.idx = IF ret.success = "false"
                                THEN (w.idx + Len(api_keys) - 1) % Len(api_keys) ELSE @]
        ELSE w1

\* the rest of _make_request in task t: it returns the dict `ret`; nothing of the
\* handler is written
RequestReturn(w, t, ret) ==
    LET task == w.tasks[t]
        w1 == [w EXCEPT !.tasks[t].pc = "idle", !.tasks[t].outcome = ret.success]
    IN  IF task.h = "odds"
        THEN [w1 EXCEPT !.log[task.seq].failed = IF ret.success = "false" THEN "true"
                                                 ELSE "false"]
        ELSE w1

\* close() of handler h in task t, up to its suspension: session.close() is called
\* only on a held, open session and marks it closed before it waits
CloseStart(w, t, h) ==
    LET hs == w.hs[h]
        task == [IdleTask EXCEPT !.h = h, !.op = "close", !.before = StatusOf(hs),
                                 !.heldBefore = hs.held]
    IN  IF hs.held # 0 /\ ~hs.closed[hs.held]
        THEN [w EXCEPT !.hs[h].closed[hs.held] = TRUE,
                       !.closes = @ + 1,
                       !.tasks[t] = [task EXCEPT !.pc = "closing", !.sess = hs.held,
                                                 !.changed = TRUE]]
        ELSE [w EXCEPT !.tasks[t] = [task EXCEPT !.outcome = "nothing"]]

\* the variables take the values of the world w
CommitHandlers(w) ==
    /\ current_key_index' = w.idx
    /\ keyLog' = w.log
    /\ session' = StatusOf(w.hs["odds"])
    /\ espn_session' = StatusOf(w.hs["espn"])
    /\ fcase' = [hs |-> w.hs, tasks |-> w.tasks, closes |-> w.closes, ecalls |-> w.ecalls]
    /\ UNCHANGED <<odds_configured, api_keys, bookmakers_filter_arg, bookmakers_filter,
                   bookmakers_limit, inv, lastCall>>

InitHandlers ==
    /\ odds_configured = TRUE
    /\ \E n \in 1..MaxKeys : api_keys = [i \in 1..n |-> ApiKey(i)]
    /\ current_key_index = 0
    /\ session = "none"
    /\ espn_session = "none"
    /\ bookmakers_filter_arg = None
    /\ bookmakers_filter = InitFilter(None)
    /\ bookmakers_limit = 5
    /\ keyLog = <<>>
    /\ inv = IdleInv
    /\ lastCall = IdleCall
    /\ fcase = [hs |-> [h \in Handlers |-> NewHandler],
                tasks |-> [t \in Tasks |-> IdleTask],
                closes |-> 0, ecalls |-> 0]

\* task t calls OddsAPIHandler._make_request
OddsRequest(t, sessOk) ==
    /\ fcase.tasks[t].pc = "idle"
    /\ Len(keyLog) < MaxCalls
    /\ CommitHandlers(StartRequest(HandlersWorld, t, "odds", sessOk))

\* task t calls ESPNAPIHandler._make_request
EspnRequest(t, sessOk) ==
    /\ fcase.tasks[t].pc = "idle"
    /\ fcase.ecalls < MaxCalls
    /\ CommitHandlers(StartRequest(HandlersWorld, t, "espn", sessOk))

\* the GET of task t is answered, or fails; it fails when its session was closed
RequestAnswered(t, resp) ==
    /\ fcase.tasks[t].pc = "pending"
    /\ fcase.hs[fcase.tasks[t].h].closed[fcase.tasks[t].sess] => resp.kind = "exception"
    /\ CommitHandlers(RequestReturn(HandlersWorld, t,
                         IF fcase.tasks[t].h = "odds" THEN MakeRequestReturn(resp)
                         ELSE EspnMakeRequestReturn(resp)))

\* task t calls close() of handler h
Close(t, h) ==
    /\ fcase.tasks[t].pc = "idle"
    /\ fcase.closes < MaxCloses
    /\ CommitHandlers(CloseStart(HandlersWorld, t, h))

\* session.close() of task t finishes and close() returns
CloseDone(t) ==
    /\ fcase.tasks[t].pc = "closing"
    /\ CommitHandlers([HandlersWorld EXCEPT !.tasks[t].pc = "idle",
                                            !.tasks[t].outcome = "closed"])

\* the answers of a vendor to one GET
HandlerResponses == Responses({[shape |-> "list", items |-> <<>>]})

NextHandlers ==
    \/ \E t \in Tasks, sessOk \in BOOLEAN : OddsRequest(t, sessOk)
    \/ \E t \in Tasks, sessOk \in BOOLEAN : EspnRequest(t, sessOk)
    \/ \E t \in Tasks, resp \in HandlerResponses : RequestAnswered(t, resp)
    \/ \E t \in Tasks, h \in Handlers : Close(t, h)
    \/ \E t \in Tasks : CloseDone(t)

SpecHandlers == InitHandlers /\ [][NextHandlers]_vars

\* the sessions of handler h that are open
OpenSessions(h) ==
    {i \in 1..Len(fcase.hs[h].closed) : ~fcase.hs[h].closed[i]}

\* C18: each handler has at most one open session at any time, whatever the
\* interleaving; _get_session creates a session exactly when none is held or the held
\* one is closed, and otherwise returns the held one; close() without a session or on
\* a closed session changes nothing; a request after close() opens a fresh session.
C18_OneSessionPerHandler ==
    /\ \A h \in Handlers : Cardinality(OpenSessions(h)) <= 1
    /\ \A t \in Tasks :
          LET task == fcase.tasks[t]
          IN  /\ (task.op = "request" /\ task.outcome # "raised") =>
                    /\ task.made <=> NeedsSession(task.before)
                    /\ ~task.made => task.sess = task.heldBefore
                    /\ (task.before = "closed") =>
                          /\ task.sess # task.heldBefore
                          /\ task.pc = "pending" =>
                                (fcase.hs[task.h].held = task.sess
                                    \/ fcase.hs[task.h].closed[task.sess])
              /\ (task.op = "close" /\ NeedsSession(task.before)) =>
                    /\ ~task.changed
                    /\ task.pc = "idle"

\* C18 witness: a request made after a close() is in flight on the second session of
\* its handler, which it opened, and a close() of that handler found nothing to close.
C18_Witness ==
    \E t, u \in Tasks :
       /\ t # u
       /\ fcase.tasks[t].pc = "pending"
       /\ fcase.tasks[t].op = "request" /\ fcase.tasks[t].before = "closed"
       /\ fcase.tasks[t].made
       /\ fcase.tasks[u].op = "close" /\ fcase.tasks[u].outcome = "nothing"
       /\ fcase.tasks[u].h = fcase.tasks[t].h
       /\ Len(fcase.hs[fcase.tasks[t].h].closed) >= 2


\* the calls there would be with the key at position p of api_keys had the calls made
\* so far run one after the other
SequentialCallsWith(p) ==
    Cardinality({k \in 1..Len(keyLog) : ((k - 1) % Len(api_keys)) + 1 = p})

\* C19: with odds requests interleaving at their awaits, taking the key and advancing
\* the index is one step: no advance is lost, no key is handed out twice within N
\* consecutive acquisitions, and the keys used are those of as many sequential calls.
C19_RotationAtomic ==
    /\ current_key_index = Len(keyLog) % Len(api_keys)
    /\ \A i, j \in 1..Len(keyLog) :
          (i < j /\ j - i < Len(api_keys)) => keyLog[i].key # keyLog[j].key
    /\ \A p \in 1..Len(api_keys) : CallsWith(api_keys[p]) = SequentialCallsWith(p)

\* C19 witness: two odds requests are in flight at once, made with different keys,
\* after the rotation wrapped around.
C19_Witness ==
    \E t, u \in Tasks :
       /\ fcase.tasks[t].pc = "pending" /\ fcase.tasks[t].h = "odds"
       /\ fcase.tasks[u].pc = "pending" /\ fcase.tasks[u].h = "odds"
       /\ keyLog[fcase.tasks[t].seq].key # keyLog[fcase.tasks[u].seq].key
       /\ Len(keyLog) > Len(api_keys)

\* the key that follows `key` in the rotation
KeyAfter(key) ==
    api_keys[((CHOOSE p \in 1..Len(api_keys) : api_keys[p] = key) % Len(api_keys)) + 1]

---------------------------------------------------------------------------
(* An empty allow-list. *)

\* C21: a handler constructed with bookmakers_filter=[] filters nothing: a successful
\* get_odds keeps the vendor's bookmakers of every game from the first one on, all of
\* them when they fit the cap c > 0 and the first c otherwise.
C21_EmptyFilterKeepsAll ==
    (FilterSucceeded /\ bookmakers_filter_arg = Some(<<>>)) =>
        /\ Len(ReturnedGames) = Len(VendorGames)
        /\ \A i \in 1..Len(ReturnedGames) :
              ~IsNone(VendorGames[i].bookmakers) =>
                 LET sent == VendorGames[i].bookmakers[1]
                     kept == ReturnedGames[i].bookmakers[1]
                 IN  /\ ~IsNone(ReturnedGames[i].bookmakers)
                     /\ Len(kept) <= Len(sent)
                     /\ kept = SubSeq(sent, 1, Len(kept))
                     /\ bookmakers_limit > 0 => Len(kept) = Min(bookmakers_limit, Len(sent))

\* C21 witness: with bookmakers_filter=[] and a cap above their number, a game came
\* back with both bookmakers the vendor listed for it.
C21_Witness ==
    /\ FilterSucceeded /\ bookmakers_filter_arg = Some(<<>>)
    /\ bookmakers_limit >= 2
    /\ \E i \in 1..Len(ReturnedGames) :
          /\ ~IsNone(VendorGames[i].bookmakers)
          /\ Len(VendorGames[i].bookmakers[1]) = 2
          /\ ReturnedGames[i].bookmakers = VendorGames[i].bookmakers

---------------------------------------------------------------------------
(* SpecFrame: _filter_bookmakers applied to any argument.  An argument is  *)
(* tagged with its Python type; a dict is a record whose data field is     *)
(* None when the key is missing.                                           *)

\* the usage dicts of a result
UsageOptions == {[remaining |-> "499", used |-> "1"], [remaining |-> "", used |-> ""]}

\* the data a dict argument holds: none, a JSON array of games, a JSON object
FrameData ==
    {None} \cup {Some(p) : p \in FilterPayloads} \cup {Some(p) : p \in FilterEventPayloads}

\* the arguments: dicts in the shape of a _make_request result, and values of other types
FrameInputs ==
    {[type |-> "dict", value |-> [success |-> s, usage |-> u, data |-> d]] :
        s \in {"true", "false"}, u \in UsageOptions, d \in FrameData}
    \cup {[type |-> "list", value |-> [success |-> "", usage |-> u, data |-> None]] :
             u \in UsageOptions}

\* _filter_bookmakers(data) from its first test on: an argument that is not a dict is
\* returned as it is
FilterBookmakersOf(filter, limit, input) ==
    IF input.type # "dict" THEN input
    ELSE [input EXCEPT !.value = FilterBookmakers(filter, limit, input.value)]

FilterAny(input) ==
    /\ ~fcase.applied
    /\ fcase' = [applied |-> TRUE, input |-> input,
                 output |-> FilterBookmakersOf(bookmakers_filter, bookmakers_limit, input)]
    /\ UNCHANGED <<odds_configured, api_keys, current_key_index, session, espn_session,
                   bookmakers_filter_arg, bookmakers_filter, bookmakers_limit, keyLog, inv,
                   lastCall>>

NextFrame == \E input \in FrameInputs : FilterAny(input)

SpecFrame == InitFilterSpec /\ [][NextFrame]_vars

\* the argument is a dict whose data is a list of games
FrameFilters(input) ==
    /\ input.type = "dict"
    /\ ~IsNone(input.value.data)
    /\ input.value.data[1].shape = "list"

---------------------------------------------------------------------------
(* SpecSearch: OddsAPIHandler.search_odds as a function of its arguments   *)
(* and of what get_odds returns for each sport it checks.                  *)

QueryBo == <<"b", "O">>
QueryNone == <<"x">>
QueryEmpty == <<>>

\* the queries search_odds is called with
SearchQueries == {QueryLa, QueryBo, QueryNone, QueryEmpty}

\* the loop of search_odds from sport number i on: matching_games after it
RECURSIVE SearchLoop(_, _, _, _)
SearchLoop(query, sports, odds, i) ==
    IF i > Len(sports) THEN <<>>
    ELSE SearchMatches(query, sports[i], odds[i])
         \o SearchLoop(query, sports, odds, i + 1)

\* search_odds(query, sport) when its get_odds calls return the results `odds`
SearchOdds(query, sport, odds) ==
    SearchReturn(query, SearchLoop(query, SportsToCheck(sport), odds, 1))

InitSearch ==
    /\ HandlersUnused
    /\ inv = IdleInv
    /\ lastCall = IdleCall
    /\ \E query \in SearchQueries, sport \in {NoSport, SportNBA} :
          \E resps \in [1..Len(SportsToCheck(sport)) -> Responses(OddsPayloads)] :
             fcase = [applied |-> FALSE, query |-> query, sport |-> sport,
                      odds |-> [i \in 1..Len(resps) |->
                                  GetOddsReturn(bookmakers_filter, bookmakers_limit,
                                                MakeRequestReturn(resps[i]))]]

Search ==
    /\ ~fcase.applied
    /\ fcase' = [fcase EXCEPT !.applied = TRUE] @@
                [result |-> SearchOdds(fcase.query, fcase.sport, fcase.odds)]
    /\ PureFrame

NextSearch == Search

SpecSearch == InitSearch /\ [][NextSearch]_vars

\* the query occurs in the name, letter case ignored
OccursIn(query, name) ==
    \E k \in 0..(Len(name) - Len(query)) :
       \A c \in 1..Len(query) : LowerChar(query[c]) = LowerChar(name[k + c])

\* the games of the get_odds result number i, none when it is not a success
GamesOfResult(i) ==
    IF fcase.odds[i].success = "true" /\ ~IsNone(fcase.odds[i].data)
    THEN fcase.odds[i].data[1].items ELSE <<>>

\* the places <<i, j>> of the games that match the query: game j of result i
MatchingPlaces ==
    UNION {{<<i, j>> : j \in {k \in 1..Len(GamesOfResult(i)) :
                                 \/ OccursIn(fcase.query, GamesOfResult(i)[k].home_team)
                                 \/ OccursIn(fcase.query, GamesOfResult(i)[k].away_team)}} :
             i \in 1..Len(fcase.odds)}

\* the places before p, in the order of the sports and then of the response
PlacesBefore(p) ==
    {q \in MatchingPlaces : q[1] < p[1] \/ (q[1] = p[1] /\ q[2] < p[2])}

\* C23: matching_games holds exactly the games of the successful get_odds results of
\* the sports checked (the given one, or NFL, NBA, MLB, NHL in this order) whose home
\* or away team contains the query, letter case ignored, each with its sport key, in
\* the order of the sports and of the responses; count is its length.
C23_SearchReturnsMatches ==
    fcase.applied =>
        LET found == fcase.result.matching_games
            sports == IF fcase.sport # NoSport THEN <<fcase.sport>>
                      ELSE <<"americanfootball_nfl", "basketball_nba", "baseball_mlb",
                             "icehockey_nhl">>
        IN  /\ Len(fcase.odds) = Len(sports)
            /\ Len(found) = Cardinality(MatchingPlaces)
            /\ fcase.result.count = Len(found)
            /\ \A p \in MatchingPlaces :
                  LET n == Cardinality(PlacesBefore(p)) + 1
                  IN  /\ found[n].sport = sports[p[1]]
                      /\ found[n].game = GamesOfResult(p[1])[p[2]]

\* C23 witness: no sport was given, the query is spelled in another letter case than
\* the team, one sport's get_odds failed, and games of two sports were found.
C23_Witness ==
    /\ fcase.applied
    /\ fcase.sport = NoSport
    /\ fcase.query = QueryBo
    /\ \E i \in 1..Len(fcase.odds) : fcase.odds[i].success = "false"
    /\ \E m, n \in 1..Len(fcase.result.matching_games) :
          /\ m < n
          /\ fcase.result.matching_games[m].sport = "americanfootball_nfl"
          /\ fcase.result.matching_games[n].sport = "icehockey_nhl"

---------------------------------------------------------------------------
(* Without an odds API key. *)

\* the tools that need the odds handler
OddsBasedTools ==
    {"get_available_sports", "get_odds", "get_scores", "get_event_odds", "search_odds",
     "get_matchup_cards", "get_odds_comparison", "get_odds_card_artifact",
     "get_visual_scoreboard"}

\* C24: with no odds API key configured every odds-based tool returns at once a dict
\* with an error field, raises nothing and sends no request to either vendor.
C24_NotConfiguredNoCall ==
    (~odds_configured /\ inv.tool \in OddsBasedTools) =>
        /\ inv.pc = "done"
        /\ ~inv.raised
        /\ ~IsNone(inv.result)
        /\ ~IsNone(inv.result[1].error)
        /\ inv.gets = 0
        /\ inv.reqs = <<>>
        /\ keyLog = <<>>
        /\ session = "none"

\* C24 witness: without a key, get_visual_scoreboard returned its error dict after an
\* ESPN tool had been used.
C24_Witness ==
    /\ ~odds_configured
    /\ inv.tool = "get_visual_scoreboard"
    /\ inv.pc = "done"
    /\ ~IsNone(inv.result)
    /\ inv.result[1].success = "false"
    /\ espn_session = "open"

---------------------------------------------------------------------------
(* get_comprehensive_game_info. *)

\* the requests the invocation sent to the vendor
SentTo(vendor) == {i \in 1..Len(inv.reqs) : inv.reqs[i].vendor = vendor}

\* the odds search of the invocation raised: a handler is configured and no odds
\* request was sent; the ESPN call raised: no ESPN request was sent
OddsFaulted == odds_configured /\ SentTo("odds") = {}
EspnFaulted == SentTo("espn") = {}

\* C25: get_comprehensive_game_info never raises and always goes on to the ESPN
\* scoreboard call after the odds search, whether there is no odds handler, the search
\* returned or it raised; what one source returned stays in the result when the other
\* raised, and when both raised the error field holds both messages, odds first.
C25_ComprehensiveNeverFatal ==
    (inv.tool = "get_comprehensive_game_info") =>
        /\ ~inv.raised
        /\ \A i \in SentTo("espn") :
              /\ inv.reqs[i].method = "get_scoreboard"
              /\ i = Len(inv.reqs)
        /\ inv.pc = "odds" => SentTo("espn") = {}
        /\ inv.pc = "done" =>
              LET result == inv.result[1]
              IN  /\ IsNone(result.espn_data) <=> EspnFaulted
                  /\ ~EspnFaulted => result.espn_data = lastCall.ret
                  /\ IsNone(result.odds_data) <=> (OddsFaulted \/ ~odds_configured)
                  /\ (~IsNone(result.odds_data)) => result.odds_data[1].success = "true"
                  /\ result.error =
                       IF OddsFaulted /\ EspnFaulted
                       THEN Some("Odds API error: ClientSession could not be created"
                                 \o "; ESPN API error: ClientSession could not be created")
                       ELSE IF OddsFaulted
                       THEN Some("Odds API error: ClientSession could not be created")
                       ELSE IF EspnFaulted
                       THEN Some("ESPN API error: ClientSession could not be created")
                       ELSE None

\* C25 witness: both sources raised and the tool returned with both messages.
C25_Witness ==
    /\ inv.tool = "get_comprehensive_game_info"
    /\ inv.pc = "done"
    /\ OddsFaulted /\ EspnFaulted
    /\ ~IsNone(inv.result[1].error)

---------------------------------------------------------------------------
(* SpecArtifact: the odds of get_odds_card_artifact, from the first        *)
(* matching game to best_ml.                                               *)

\* bookmakers of a game: the longest list the vendor sends here
MaxQuotes == 6
\* bookmakers = game.get("bookmakers", [])[:5]
ArtifactBooks == 5

\* a bookmaker quoting the moneyline of the home team (LA) and the away team (Bo)
QuotingBook(title, home, away) ==
    [title |-> title,
     markets |-> <<[key |-> "h2h",
                    outcomes |-> <<[name |-> TeamLA, price |-> Some(home)],
                                   [name |-> TeamBo, price |-> Some(away)]>>]>>]

\* the bookmakers of the game: American odds above +100 and below -100, and a
\* bookmaker without a moneyline market
ArtifactBookPool ==
    {QuotingBook("DraftKings", -150, 130), QuotingBook("FanDuel", -140, 120),
     QuotingBook("BetMGM", 110, -130),
     [title |-> "Bovada", markets |-> <<>>]}

\* next((m for m in markets if m.get("key") == key), None)
MarketOf(book, key) ==
    LET found == SelectSeq(book.markets, LAMBDA m : m.key = key)
    IN  IF found = <<>> THEN None ELSE Some(found[1])

\* the loop over the outcomes of the h2h market: the price of the last outcome named
\* `team`, 0 when there is no market or no such outcome
RECURSIVE PriceIn(_, _, _)
PriceIn(outcomes, team, sofar) ==
    IF outcomes = <<>> THEN sofar
    ELSE PriceIn(Tail(outcomes), team,
                 IF Head(outcomes).name = team THEN Get(Head(outcomes).price, 0) ELSE sofar)

\* ml_home and ml_away of one bookmaker
Moneylines(book, home_team, away_team) ==
    LET h2h == MarketOf(book, "h2h")
    IN  IF IsNone(h2h) THEN [ml_home |-> 0, ml_away |-> 0]
        ELSE [ml_home |-> PriceIn(h2h[1].outcomes, home_team, 0),
              ml_away |-> PriceIn(h2h[1].outcomes, away_team, 0)]

\* max(values, default=0)
MaxOr0(values) ==
    IF values = {} THEN 0 ELSE CHOOSE v \in values : \A u \in values : u <= v

\* best_ml: max of the focus team's moneylines that are > 0, 0 when there is none
BestMl(is_home, books_data) ==
    MaxOr0({IF is_home THEN books_data[i].ml_home ELSE books_data[i].ml_away :
               i \in {j \in 1..Len(books_data) :
                         (IF is_home THEN books_data[j].ml_home
                          ELSE books_data[j].ml_away) > 0}})

\* get_odds_card_artifact from `game = games[0]` to best_ml
ArtifactOdds(team_name, game) ==
    LET bookmakers == Take(game.bookmakers, ArtifactBooks)
        is_home == Contains(Lower(team_name), Lower(game.home_team))
        books_data == [i \in 1..Len(bookmakers) |->
                          Moneylines(bookmakers[i], game.home_team, game.away_team)]
    IN  [is_home |-> is_home, included |-> Len(bookmakers),
         books_data |-> books_data, best_ml |-> BestMl(is_home, books_data)]

InitArtifact ==
    /\ PureInit
    /\ \E team_name \in {TeamLA, TeamBo}, n \in 1..MaxQuotes :
          \E books \in [1..n -> ArtifactBookPool] :
             fcase = [applied |-> FALSE, team_name |-> team_name,
                      game |-> [home_team |-> TeamLA, away_team |-> TeamBo,
                                bookmakers |-> books]]

Artifact ==
    /\ ~fcase.applied
    /\ fcase' = [fcase EXCEPT !.applied = TRUE] @@
                [odds |-> ArtifactOdds(fcase.team_name, fcase.game)]
    /\ PureFrame

NextArtifact == Artifact

SpecArtifact == InitArtifact /\ [][NextArtifact]_vars

\* the moneyline prices the first five bookmakers of the game quote for the team
QuotedFor(team) ==
    {o.price[1] : o \in
        UNION {UNION {{m.outcomes[k] : k \in {x \in 1..Len(m.outcomes) :
                                                 m.outcomes[x].name = team}} :
                         m \in {fcase.game.bookmakers[i].markets[j] :
                                  j \in {y \in 1..Len(fcase.game.bookmakers[i].markets) :
                                           fcase.game.bookmakers[i].markets[y].key = "h2h"}}} :
                  i \in {z \in 1..Len(fcase.game.bookmakers) : z <= 5}}}

\* C26 (as claimed): best_ml is the greatest moneyline price the included bookmakers
\* (the first five) quote for the focus team, whatever the signs of the prices, also
\* when every quoted price is negative.
C26_BestMoneyline ==
    (fcase.applied /\ QuotedFor(fcase.team_name) # {}) =>
        /\ fcase.odds.best_ml \in QuotedFor(fcase.team_name)
        /\ \A p \in QuotedFor(fcase.team_name) : p <= fcase.odds.best_ml

---------------------------------------------------------------------------
(* Vendor ids of the league tables. *)

\* the teams of the table that carry the id
TeamsWithId(teams, id) == {i \in 1..Len(teams) : teams[i].id = id}

\* C27 (as claimed): within NFL_TEAMS, NBA_TEAMS and NHL_TEAMS no two teams share an
\* id, so the id of a record find_team_id returns belongs to exactly one team of the
\* league.
C27_IdsInjective ==
    /\ \A teams \in {NFL_TEAMS, NBA_TEAMS, NHL_TEAMS} :
          \A i, j \in 1..Len(teams) : teams[i].id = teams[j].id => i = j
    /\ (fcase.applied /\ ~IsNone(fcase.result)) =>
          Cardinality(TeamsWithId(TeamsOf(Lower(fcase.league))[1], fcase.result[1].id)) = 1

---------------------------------------------------------------------------
(* Width of the matchup card. *)

\* C28 (as claimed): every line of the card format_matchup_card returns, from the top
\* border to the bottom border, is exactly 66 characters wide, for every game: any
\* team-name length, any time string, any price with or without a spread point.  (The
\* str starts with a newline; the empty line before the top border is not counted.)
C28_CardFixedWidth ==
    (fcase.applied /\ ~fcase.result[1].raised) =>
        LET card == fcase.result[1].card
        IN  \A i \in 2..Len(card) : Len(card[i].text) = 66

====
